---- MODULE Spec2Model ----
(***************************************************************************)
(* State-machine model of crnch's compression engines                      *)
(* (src/src/compression.rs): compress_png, compress_pdf, compress_jpg and  *)
(* handle_fallback_options.  The external codecs (oxipng, pngquant,        *)
(* magick, gs, jpegoptim), the console prompt and the filesystem are the   *)
(* environment: every outcome they can produce is a nondeterministic       *)
(* choice.  One action is one external interaction (a codec invocation or  *)
(* a prompt) together with the code that follows it up to the next one.    *)
(***************************************************************************)
EXTENDS Integers, Sequences, FiniteSets, TLC

\* ------------------------------------------------------------------ bounds
\* Largest artifact size, in whole KB, a codec produces.  The requested target
\* is MaxKB - 1, so that sizes fall below, on and above it.
MaxKB == 2

\* ------------------------------------------------------- program constants
\* Option<u64>::None for target_kb.
NoTarget == -1
\* Probe budget of the PNG quality, PNG scale and JPEG scale loops.
MaxProbes == 8
\* max_iterations of the PDF DPI loop.
max_iterations == 14
\* PNG quantization range.
MinQ0 == 30
MaxQ0 == 100
\* PNG resize range.
MinScale0 == 1
MaxScale0 == 100
\* JPEG fallback resize upper bound.
JpgMaxScale0 == 99

VARIABLES
    engine,         \* "png" | "pdf" | "jpg": the arm of compress_file's match
    pc,             \* position in the engine
    target_kb,      \* Option<u64>, NoTarget for None
    auto_yes,       \* the --yes flag
    level,          \* Option<CompressionLevel>, "none" for None
    nerd,           \* verbose mode (--nerd)
    cli_size,       \* the --size argument, a sequence of characters
    parsed,         \* what parse_size yields for cli_size, NoTarget for None
    cli_output,     \* an --output path was given
    mpc,            \* position in main: "size", "overwrite", "engine", "exited"
    exit_code,      \* the process's exit code, -1 while it runs
    original_size,  \* get_file_size_kb(input)
    fs,             \* the filesystem: file name -> content
    result,         \* "none" while running, then "Ok" or an error
    algorithm,      \* CompResult.algorithm of an Ok return
    \* compress_png locals
    oxi_size, min_q, max_q, best_candidate, gray_size, resize_input,
    min_scale, max_scale, best_scale, attempts,
    \* compress_pdf locals
    floor_size, floor_checked, min_dpi, max_dpi, best_dpi, best_size, found_valid,
    \* compress_jpg locals (no-target ladder)
    rung, tried_targets, success, final_target,
    \* history (not program state)
    calls,          \* codec invocations issued so far, by stage
    probed,         \* per search: the knob values probed so far
    fits,           \* per search: the knobs whose probe exited cleanly with size <= target
    asked,          \* the consent gates passed so far, with their answers
    quality_arg,    \* the --quality range of the last pngquant invocation, <<lo, hi>>
    shown,          \* the quantities printed so far on the way to a prompt
    mono,           \* the run's codecs are well behaved (see ProbeOutcomes)
    litter,         \* a codec that exits non-zero may leave a file (see Written)
    thr,            \* in a well behaved run, per search: the largest knob whose size is <= target
    seen            \* in a well behaved run, per search: the <<knob, size>> pairs observed

pngVars == <<oxi_size, min_q, max_q, best_candidate, gray_size, resize_input,
             min_scale, max_scale, best_scale, attempts, quality_arg>>
pdfVars == <<floor_size, floor_checked, min_dpi, max_dpi, best_dpi, best_size, found_valid>>
jpgVars == <<rung, tried_targets, success, final_target>>
reqVars == <<engine, target_kb, auto_yes, level, nerd, original_size, mono, thr,
             cli_size, parsed, cli_output, mpc, exit_code, litter>>
vars == <<engine, pc, target_kb, auto_yes, level, nerd, original_size, fs, result, algorithm,
          oxi_size, min_q, max_q, best_candidate, gray_size, resize_input,
          min_scale, max_scale, best_scale, attempts,
          floor_size, floor_checked, min_dpi, max_dpi, best_dpi, best_size, found_valid,
          rung, tried_targets, success, final_target,
          calls, probed, fits, asked, quality_arg, shown, mono, thr, seen,
          cli_size, parsed, cli_output, mpc, exit_code, litter>>

\* ------------------------------------------------------------- filesystem
KB == 0..MaxKB
Targets == {MaxKB - 1}

\* Mutant of Percents: a ladder of nine rungs, the first tried twice.
PercentsSixtyTwice == <<60, 60, 65, 70, 75, 80, 85, 90, 95>>

\* `for percent in [60, 65, 70, 75, 80, 85, 90, 95]`
Percents == <<60, 65, 70, 75, 80, 85, 90, 95>>

\* `if percent == 60 { output } else { format!("{}.tgt{}p.jpg", output, percent) }`
TryOut(percent) ==
    CASE percent = 60 -> "output"
      [] percent = 65 -> "tgt65p"
      [] percent = 70 -> "tgt70p"
      [] percent = 75 -> "tgt75p"
      [] percent = 80 -> "tgt80p"
      [] percent = 85 -> "tgt85p"
      [] percent = 90 -> "tgt90p"
      [] percent = 95 -> "tgt95p"

Files == {"input", "output", "oxi_out", "pq_out", "gray_out", "resize_out",
          "temp_output", "tmp_optim"}
         \cup {TryOut(Percents[i]) : i \in 1..Len(Percents)}

\* A file's content: which tool wrote it (tag), from which artifact (of), at
\* which knob value, and its size in KB.
Art(tag, of, knob, kb) == [tag |-> tag, of |-> of, knob |-> knob, kb |-> kb]
Absent == Art("absent", "", 0, 0)

\* fs::metadata(path).map(|m| m.len() / 1024).unwrap_or(0)
get_file_size_kb(f, path) == IF f[path] = Absent THEN 0 ELSE f[path].kb

\* fs::remove_file(path), its result ignored.
remove_file(f, path) == [f EXCEPT ![path] = Absent]

\* fs::copy(src, dst): the set of outcomes [ok, fs].  A missing source is an
\* error; so is any other I/O failure, taken to leave the destination as it was.
copy(f, src, dst) ==
    IF f[src] = Absent
    THEN {[ok |-> FALSE, fs |-> f]}
    ELSE {[ok |-> TRUE, fs |-> [f EXCEPT ![dst] = f[src]]],
          [ok |-> FALSE, fs |-> f]}

\* fs::rename(src, dst): as copy, the source gone on success.
rename(f, src, dst) ==
    IF f[src] = Absent
    THEN {[ok |-> FALSE, fs |-> f]}
    ELSE {[ok |-> TRUE, fs |-> [f EXCEPT ![dst] = f[src], ![src] = Absent]]}
         \cup {[ok |-> FALSE, fs |-> f]}

\* ------------------------------------------------------------ environment
Stages == {"oxipng", "pngquant", "gray", "resize", "polish",
           "gs_preset", "gs_floor", "gs_dpi", "gs_screen",
           "jpegoptim", "magick_lossy", "jgray", "jresize", "jfinal"}
Searches == {"quality", "scale", "dpi", "jscale"}

\* Command::status(): the process could not be spawned (an Err the `?`
\* propagates), exited non-zero, or exited cleanly.  A well behaved run has
\* only clean exits.
Exits == IF mono THEN {"ok"} ELSE {"spawn", "fail", "ok"}

\* What a codec leaves at its destination: a clean exit wrote the artifact; a
\* process that never started leaves the destination as it was; so does one
\* that exits non-zero when the codecs write their output only when they are
\* done, and with `litter` it may also have left a truncated file there.
Written(f, dst, exit, art) ==
    CASE exit = "ok"             -> {[f EXCEPT ![dst] = art]}
      [] exit = "fail" /\ litter -> {f, [f EXCEPT ![dst] = Art("partial", "", 0, 0)]}
      [] OTHER                   -> {f}

\* The sizes a probe of search s at knob k can produce.  Codecs are black
\* boxes: any size.  In a well behaved run the size is non-decreasing in the
\* knob (against every probe observed so far) and is <= target exactly for
\* the knobs up to thr[s].
ProbeSizes(s, k) ==
    IF ~mono THEN KB
    ELSE {kb \in KB :
            /\ (kb <= target_kb) <=> (k <= thr[s])
            /\ \A p \in seen[s] : /\ p[1] <= k => p[2] <= kb
                                  /\ p[1] >= k => p[2] >= kb}

\* History bookkeeping of one probe of search s at knob k, stage st.
Note(s, st, k, exit, kb) ==
    /\ calls' = [calls EXCEPT ![st] = @ + 1]
    /\ probed' = [probed EXCEPT ![s] = @ \cup {k}]
    /\ fits' = IF exit = "ok" /\ kb <= target_kb
               THEN [fits EXCEPT ![s] = @ \cup {k}] ELSE fits
    /\ seen' = IF mono THEN [seen EXCEPT ![s] = @ \cup {<<k, kb>>}] ELSE seen

\* Confirm::new()...interact()?, or the fixed answer under auto_yes.
Answers == IF auto_yes THEN {"auto"} ELSE {"yes", "no", "error"}
Yes(a) == a \in {"auto", "yes"}

\* println! of the named quantities, and the same under `if nerd`.
Show(labels) == shown \cup labels
NerdShow(labels) == IF nerd THEN shown \cup labels ELSE shown

\* Return from the engine.
Return(res, alg) ==
    /\ result' = res
    /\ algorithm' = alg
    /\ pc' = "done"

NoBest == [some |-> FALSE, knob |-> 0, size |-> 0]
Some(k, sz) == [some |-> TRUE, knob |-> k, size |-> sz]

\* Mutant of Mid: the midpoint rounded one too high.
MidUp(lo, hi) == (lo + hi) \div 2 + 1

\* `let mid = (lo + hi) / 2;` of the four search loops.
Mid(lo, hi) == (lo + hi) \div 2

\* Mutant of NothingToDo: `>` for `>=`.
NothingToDoStrict == target_kb # NoTarget /\ target_kb > original_size

\* `if let Some(target) = target_kb { if target >= original_size {`
NothingToDo == target_kb # NoTarget /\ target_kb >= original_size

\* The "requested size >= original" gate, the same code in the three engines.
KeepOriginal(gate) ==
    /\ pc = "start"
    /\ NothingToDo
    /\ \E a \in Answers :
        /\ asked' = Append(asked, <<gate, a>>)
        /\ CASE a = "error" -> /\ Return("ErrPrompt", "") /\ fs' = fs
             [] a = "no"    -> /\ Return("ErrCancelled", "") /\ fs' = fs
             [] OTHER       ->
                 \E c \in copy(fs, "input", "output") :
                    /\ fs' = c.fs
                    /\ IF c.ok
                       THEN Return("Ok", "No compression (requested size >= original)")
                       ELSE Return("ErrIo", "")
    /\ UNCHANGED <<reqVars, shown, pngVars, pdfVars, jpgVars, calls, probed, fits, seen>>

\* ------------------------------------------------------------ compress_png
PngKeepOriginal == engine = "png" /\ KeepOriginal("png_keep")

\* Mutant of StripFits: `<` for `<=`.
StripFitsBelow(sz) == target_kb = NoTarget \/ sz < target_kb

\* `if target_kb.is_none() { .. return }` and `if oxi_size <= target { .. return }`
StripFits(sz) == target_kb = NoTarget \/ sz <= target_kb

\* Stage 1: the oxipng strip, and the two returns on its result.
PngStrip ==
    /\ engine = "png" /\ pc = "start" /\ ~NothingToDo
    /\ calls' = [calls EXCEPT !["oxipng"] = @ + 1]
    /\ \E exit \in Exits, kb \in KB :
        IF exit = "spawn"
        THEN /\ Return("ErrSpawn", "") /\ UNCHANGED <<fs, oxi_size, shown>>
        ELSE \E f1 \in Written(fs, "oxi_out", exit, Art("oxipng", "input", 0, kb)) :
             LET sz == get_file_size_kb(f1, "oxi_out") IN
             /\ oxi_size' = sz
             /\ shown' = NerdShow({"oxi_size"})
             /\ IF StripFits(sz)
                THEN \E c \in copy(f1, "oxi_out", "output") :
                        IF c.ok
                        THEN /\ fs' = remove_file(c.fs, "oxi_out")
                             /\ Return("Ok", "oxipng (Lossless)")
                        ELSE /\ fs' = c.fs /\ Return("ErrIo", "")
                ELSE /\ fs' = f1
                     /\ pc' = "quant"
                     /\ UNCHANGED <<result, algorithm>>
    /\ UNCHANGED <<reqVars, quality_arg, min_q, max_q, best_candidate, gray_size, resize_input,
                   min_scale, max_scale, best_scale, attempts, pdfVars, jpgVars,
                   probed, fits, asked, seen>>

\* `while min_q <= max_q && attempts < 8`
QuantLoop == min_q <= max_q /\ attempts < MaxProbes

\* `if !status.success() { max_q = mid_q - 1; continue; }`
QuantOnFail(mid_q) == mid_q - 1

\* Mutant of QuantFits: the size compared with the original's, not the target.
QuantFitsOriginal(pq_size) == pq_size <= original_size

\* `if pq_size <= target { best_candidate = Some(..); min_q = mid_q + 1 } else { max_q = mid_q - 1 }`
QuantFits(pq_size) == pq_size <= target_kb

\* `.arg("--quality").arg(format!("{}-{}", mid_q, max_q))`
QualityArg(mid_q) == <<mid_q, max_q>>

\* Stage 2: one pngquant probe of the quality search.
PngQuantProbe ==
    /\ engine = "png" /\ pc = "quant" /\ QuantLoop
    /\ LET mid_q == Mid(min_q, max_q) IN
       \E exit \in Exits, kb \in ProbeSizes("quality", mid_q) :
        /\ attempts' = attempts + 1
        /\ quality_arg' = QualityArg(mid_q)
        /\ shown' = IF exit = "ok" THEN NerdShow({"pq_size", "target"}) ELSE shown
        /\ Note("quality", "pngquant", mid_q, exit, kb)
        /\ CASE exit = "spawn" ->
                 /\ Return("ErrSpawn", "")
                 /\ UNCHANGED <<fs, min_q, max_q, best_candidate>>
             [] exit = "fail" ->
                 /\ fs' \in Written(fs, "pq_out", exit, Absent)
                 /\ max_q' = QuantOnFail(mid_q)
                 /\ UNCHANGED <<min_q, best_candidate, pc, result, algorithm>>
             [] exit = "ok" ->
                 /\ fs' \in Written(fs, "pq_out", exit,
                                    Art("pngquant", fs["oxi_out"].tag, mid_q, kb))
                 /\ IF QuantFits(kb)
                    THEN /\ best_candidate' = Some(mid_q, kb)
                         /\ min_q' = mid_q + 1
                         /\ UNCHANGED max_q
                    ELSE /\ max_q' = mid_q - 1
                         /\ UNCHANGED <<min_q, best_candidate>>
                 /\ UNCHANGED <<pc, result, algorithm>>
    /\ UNCHANGED <<reqVars, oxi_size, gray_size, resize_input, min_scale, max_scale,
                   best_scale, pdfVars, jpgVars, asked>>

\* Mutant of QuantFound: a candidate exactly on the target is not taken.
QuantFoundBelow == best_candidate.some /\ best_candidate.size < target_kb

\* `if let Some((q, _)) = best_candidate`
QuantFound == best_candidate.some

\* The file the quantization result is taken from.
QuantResultFile == "pq_out"

\* After the quality search: the found candidate goes to the output, else on
\* to grayscale.
PngQuantEnd ==
    /\ engine = "png" /\ pc = "quant" /\ ~QuantLoop
    /\ IF QuantFound
       THEN \E c \in copy(fs, QuantResultFile, "output") :
               IF c.ok
               THEN /\ fs' = remove_file(remove_file(c.fs, "pq_out"), "oxi_out")
                    /\ pc' = "polish"
                    /\ UNCHANGED <<result, algorithm>>
               ELSE /\ fs' = c.fs /\ Return("ErrIo", "")
       ELSE /\ pc' = "gray"
            /\ UNCHANGED <<fs, result, algorithm>>
    /\ UNCHANGED <<reqVars, shown, pngVars, pdfVars, jpgVars, calls, probed, fits, asked, seen>>

\* The in-place oxipng polish of the output: its result is ignored, and a
\* lossless repack does not grow the file.
Polished(f, exit, kb) ==
    IF exit = "ok" /\ f["output"] # Absent
    THEN [f EXCEPT !["output"] = Art("polished", @.tag, @.knob, kb)]
    ELSE f

PngPolish ==
    /\ engine = "png" /\ pc = "polish"
    /\ calls' = [calls EXCEPT !["polish"] = @ + 1]
    /\ \E exit \in Exits, kb \in 0..get_file_size_kb(fs, "output") :
        fs' = Polished(fs, exit, kb)
    /\ Return("Ok", "Hybrid (Oxipng + Binary Search)")
    /\ UNCHANGED <<reqVars, shown, pngVars, pdfVars, jpgVars, probed, fits, asked, seen>>

\* Mutant of BranchB: `<=` for `<`.
BranchBOrEqual(gsz) == IF gsz <= oxi_size THEN "grayResizeGate" ELSE "resizeGate"

\* Branch B (`// Branch B: Grayscale Fails OR User Rejected`): which gate comes next.
BranchB(gsz) == IF gsz < oxi_size THEN "grayResizeGate" ELSE "resizeGate"

\* `if gray_size <= target`: the gate that accepts the grayscale result.
GrayFits(gsz) == gsz <= target_kb

\* The image the grayscale conversion reads.
GrayInput == "oxi_out"

\* Stage 3: the grayscale conversion; its exit status is ignored.
PngGray ==
    /\ engine = "png" /\ pc = "gray"
    /\ calls' = [calls EXCEPT !["gray"] = @ + 1]
    /\ \E exit \in Exits, kb \in KB :
        IF exit = "spawn"
        THEN /\ Return("ErrSpawn", "") /\ UNCHANGED <<fs, gray_size>>
        ELSE /\ fs' \in Written(fs, "gray_out", exit, Art("gray", fs[GrayInput].tag, 0, kb))
             /\ gray_size' = get_file_size_kb(fs', "gray_out")
             /\ pc' = IF GrayFits(gray_size') THEN "grayGate" ELSE BranchB(gray_size')
             /\ UNCHANGED <<result, algorithm>>
    /\ UNCHANGED <<reqVars, shown, oxi_size, quality_arg, min_q, max_q, best_candidate, resize_input,
                   min_scale, max_scale, best_scale, attempts, pdfVars, jpgVars,
                   probed, fits, asked, seen>>

\* `// Cleanup` of the temp files of compress_png.
PngCleanup(f) ==
    remove_file(remove_file(remove_file(remove_file(f, "oxi_out"), "gray_out"),
                            "resize_out"), "pq_out")

\* Branch A: "Target reached by converting to Grayscale. Proceed?"
PngGrayGate ==
    /\ engine = "png" /\ pc = "grayGate"
    /\ \E a \in Answers :
        /\ asked' = Append(asked, <<"png_gray", a>>)
        /\ CASE a = "error" -> /\ Return("ErrPrompt", "") /\ fs' = fs
             [] a = "no"    -> /\ pc' = BranchB(gray_size)
                               /\ UNCHANGED <<fs, result, algorithm>>
             [] OTHER       ->
                 \E c \in copy(fs, "gray_out", "output") :
                    IF c.ok
                    THEN /\ fs' = remove_file(remove_file(remove_file(c.fs, "gray_out"),
                                                          "oxi_out"), "pq_out")
                         /\ Return("Ok", "pngquant + Grayscale")
                    ELSE /\ fs' = c.fs /\ Return("ErrIo", "")
    /\ UNCHANGED <<reqVars, shown, pngVars, pdfVars, jpgVars, calls, probed, fits, seen>>

\* `// 4. RESIZE LOOP`: the loop's locals at entry, with the chosen base.
EnterResize(base) ==
    /\ resize_input' = base
    /\ min_scale' = MinScale0
    /\ max_scale' = MaxScale0
    /\ best_scale' = NoBest
    /\ attempts' = 0
    /\ pc' = "resize"
    /\ UNCHANGED <<fs, result, algorithm>>

\* "Save best effort": `_color_candidate_path` is Some(pq_out) whenever this
\* code is reached, so the copy is from pq_out.
PngBestEffort(alg) ==
    /\ \E c \in copy(fs, "pq_out", "output") :
        IF c.ok
        THEN /\ fs' = remove_file(remove_file(remove_file(c.fs, "pq_out"), "oxi_out"),
                                  "gray_out")
             /\ Return("Ok", alg)
        ELSE /\ fs' = c.fs /\ Return("ErrIo", "")
    /\ UNCHANGED <<resize_input, min_scale, max_scale, best_scale, attempts>>

\* "Target unreachable in Color. Proceed with Grayscale Resizing?"
PngGrayResizeGate ==
    /\ engine = "png" /\ pc = "grayResizeGate"
    /\ \E a \in Answers :
        /\ asked' = Append(asked, <<"png_gray_resize", a>>)
        /\ CASE a = "error" -> /\ Return("ErrPrompt", "")
                               /\ UNCHANGED <<fs, resize_input, min_scale, max_scale,
                                              best_scale, attempts>>
             [] a = "no"    -> /\ pc' = "colorResizeGate"
                               /\ UNCHANGED <<fs, result, algorithm, resize_input,
                                              min_scale, max_scale, best_scale, attempts>>
             [] OTHER       -> EnterResize("gray_out")
    /\ UNCHANGED <<reqVars, shown, oxi_size, quality_arg, min_q, max_q, best_candidate, gray_size,
                   pdfVars, jpgVars, calls, probed, fits, seen>>

\* "Resize the Color image instead?"
PngColorResizeGate ==
    /\ engine = "png" /\ pc = "colorResizeGate"
    /\ \E a \in Answers :
        /\ asked' = Append(asked, <<"png_color_resize", a>>)
        /\ CASE a = "error" -> /\ Return("ErrPrompt", "")
                               /\ UNCHANGED <<fs, resize_input, min_scale, max_scale,
                                              best_scale, attempts>>
             [] a = "no"    -> PngBestEffort("pngquant (Best Effort Color)")
             [] OTHER       -> EnterResize("oxi_out")
    /\ UNCHANGED <<reqVars, shown, oxi_size, quality_arg, min_q, max_q, best_candidate, gray_size,
                   pdfVars, jpgVars, calls, probed, fits, seen>>

\* "Target unreachable. Resize image dimensions?"
PngResizeGate ==
    /\ engine = "png" /\ pc = "resizeGate"
    /\ \E a \in Answers :
        /\ asked' = Append(asked, <<"png_resize", a>>)
        /\ CASE a = "error" -> /\ Return("ErrPrompt", "")
                               /\ UNCHANGED <<fs, resize_input, min_scale, max_scale,
                                              best_scale, attempts>>
             [] a = "no"    -> PngBestEffort("pngquant (Best Effort)")
             [] OTHER       -> EnterResize("oxi_out")
    /\ UNCHANGED <<reqVars, shown, oxi_size, quality_arg, min_q, max_q, best_candidate, gray_size,
                   pdfVars, jpgVars, calls, probed, fits, seen>>

\* Mutant of ResizeLoop: `<=` for `<` in the budget test.
ResizeLoopOneMore == min_scale <= max_scale /\ attempts <= MaxProbes

\* `while min_scale <= max_scale && attempts < 8`
ResizeLoop == min_scale <= max_scale /\ attempts < MaxProbes

\* The scale loops have no else-arm for a failed invocation: the range stays.
ScaleOnFail(mid_scale) == max_scale

\* Stage 4: one magick -resize probe of the scale search.
PngResizeProbe ==
    /\ engine = "png" /\ pc = "resize" /\ ResizeLoop
    /\ LET mid_scale == Mid(min_scale, max_scale) IN
       \E exit \in Exits, kb \in ProbeSizes("scale", mid_scale) :
        /\ attempts' = attempts + 1
        /\ Note("scale", "resize", mid_scale, exit, kb)
        /\ shown' = IF exit = "ok" THEN NerdShow({"resize_size", "target"}) ELSE shown
        /\ CASE exit = "spawn" ->
                 /\ Return("ErrSpawn", "")
                 /\ UNCHANGED <<fs, min_scale, max_scale, best_scale>>
             [] exit = "fail" ->
                 /\ fs' \in Written(fs, "resize_out", exit, Absent)
                 /\ max_scale' = ScaleOnFail(mid_scale)
                 /\ UNCHANGED <<min_scale, best_scale, pc, result, algorithm>>
             [] exit = "ok" ->
                 /\ fs' \in Written(fs, "resize_out", exit,
                                    Art("resize", fs[resize_input].tag, mid_scale, kb))
                 /\ IF kb <= target_kb
                    THEN /\ best_scale' = Some(mid_scale, kb)
                         /\ min_scale' = mid_scale + 1
                         /\ UNCHANGED max_scale
                    ELSE /\ max_scale' = mid_scale - 1
                         /\ UNCHANGED <<min_scale, best_scale>>
                 /\ UNCHANGED <<pc, result, algorithm>>
    /\ UNCHANGED <<reqVars, oxi_size, quality_arg, min_q, max_q, best_candidate, gray_size,
                   resize_input, pdfVars, jpgVars, asked>>

\* After the scale search: the found scale goes to the output, else the
\* "save smallest possible" gate.
PngResizeEnd ==
    /\ engine = "png" /\ pc = "resize" /\ ~ResizeLoop
    /\ IF best_scale.some
       THEN \E c \in copy(fs, "resize_out", "output") :
               IF c.ok
               THEN /\ fs' = c.fs
                    /\ pc' = "polishResize"
                    /\ UNCHANGED <<result, algorithm>>
               ELSE /\ fs' = c.fs /\ Return("ErrIo", "")
       ELSE /\ pc' = "smallestGate"
            /\ UNCHANGED <<fs, result, algorithm>>
    /\ UNCHANGED <<reqVars, shown, pngVars, pdfVars, jpgVars, calls, probed, fits, asked, seen>>

\* "Target unreachable. Save smallest possible?", then the final cleanup.
PngSmallestGate ==
    /\ engine = "png" /\ pc = "smallestGate"
    /\ \E a \in Answers :
        /\ asked' = Append(asked, <<"png_smallest", a>>)
        /\ CASE a = "error" -> /\ Return("ErrPrompt", "") /\ fs' = fs
             [] a = "no"    -> /\ fs' = PngCleanup(fs)
                               /\ Return("Ok", "Hybrid Chain")
             [] OTHER       ->
                 \E c \in copy(fs, "resize_out", "output") :
                    IF c.ok
                    THEN /\ fs' = PngCleanup(c.fs)
                         /\ Return("Ok", "Hybrid Chain")
                    ELSE /\ fs' = c.fs /\ Return("ErrIo", "")
    /\ UNCHANGED <<reqVars, shown, pngVars, pdfVars, jpgVars, calls, probed, fits, seen>>

\* `// Final Polish` of a found resize, then the final cleanup.
PngPolishResize ==
    /\ engine = "png" /\ pc = "polishResize"
    /\ calls' = [calls EXCEPT !["polish"] = @ + 1]
    /\ \E exit \in Exits, kb \in 0..get_file_size_kb(fs, "output") :
        fs' = PngCleanup(Polished(fs, exit, kb))
    /\ Return("Ok", "Hybrid Chain")
    /\ UNCHANGED <<reqVars, shown, pngVars, pdfVars, jpgVars, probed, fits, asked, seen>>

PngNext ==
    \/ PngKeepOriginal \/ PngStrip \/ PngQuantProbe \/ PngQuantEnd \/ PngPolish
    \/ PngGray \/ PngGrayGate \/ PngGrayResizeGate \/ PngColorResizeGate
    \/ PngResizeGate \/ PngResizeProbe \/ PngResizeEnd \/ PngSmallestGate
    \/ PngPolishResize

\* ------------------------------------------------------------ compress_pdf
PdfKeepOriginal == engine = "pdf" /\ KeepOriginal("pdf_keep")

\* Mutant of Preset: /ebook only above the 50,000 KB threshold.
PresetAboveFifty(orig) == IF orig > 50000 THEN "/ebook" ELSE "/printer"

\* `let preset = if original_size > 50_000 ... ` (no target).
Preset(orig) ==
    IF orig > 50000 THEN "/ebook"
    ELSE IF orig > 10000 THEN "/ebook"
    ELSE IF orig > 1000 THEN "/printer"
    ELSE "/printer"

\* run_gs(..): Ok only for a spawned process that exited cleanly.
GsOk(exit) == exit = "ok"

\* No target: one preset run, its error propagated.
PdfPreset ==
    /\ engine = "pdf" /\ pc = "start" /\ target_kb = NoTarget
    /\ calls' = [calls EXCEPT !["gs_preset"] = @ + 1]
    /\ \E exit \in Exits, kb \in KB :
        /\ fs' \in Written(fs, "output", exit, Art("gs", Preset(original_size), 0, kb))
        /\ CASE exit = "spawn" -> Return("ErrSpawn", "")
             [] exit = "fail"  -> Return("ErrTool", "")
             [] exit = "ok"    -> Return("Ok", "Smart Compression")
    /\ UNCHANGED <<reqVars, shown, pngVars, pdfVars, jpgVars, probed, fits, asked, seen>>

\* Mutant of DpiRange: `>=` for `>` in the ratio tests.
DpiRangeInclusive(orig, tgt) ==
    IF orig >= 10 * tgt THEN <<50, 150>>
    ELSE IF orig >= 3 * tgt THEN <<72, 250>>
    ELSE IF orig >= 2 * tgt THEN <<100, 400>>
    ELSE <<150, 600>>

\* `let (mut min_dpi, mut max_dpi) = match compression_ratio`, the ratio
\* original_size / target compared without rounding.
DpiRange(orig, tgt) ==
    IF orig > 10 * tgt THEN <<50, 150>>
    ELSE IF orig > 3 * tgt THEN <<72, 250>>
    ELSE IF orig > 2 * tgt THEN <<100, 400>>
    ELSE <<150, 600>>

\* Mutant of Unreachable: the floor compared with the original's size.
UnreachableVsOriginal(checked, fsz) == checked /\ fsz > original_size

\* `if floor_checked && floor_size > target`
Unreachable(checked, fsz) == checked /\ fsz > target_kb

\* Stage 1: floor detection with the /screen preset.
PdfFloor ==
    /\ engine = "pdf" /\ pc = "start" /\ target_kb # NoTarget /\ ~NothingToDo
    /\ calls' = [calls EXCEPT !["gs_floor"] = @ + 1]
    /\ \E exit \in Exits, kb \in KB :
        /\ fs' \in Written(fs, "temp_output", exit, Art("gs", "/screen", 0, kb))
        /\ IF GsOk(exit)
           THEN /\ floor_size' = get_file_size_kb(fs', "temp_output")
                /\ floor_checked' = TRUE
           ELSE UNCHANGED <<floor_size, floor_checked>>
        /\ pc' = IF Unreachable(floor_checked', floor_size') THEN "floorGate" ELSE "dpi"
        /\ shown' = IF Unreachable(floor_checked', floor_size')
                     THEN NerdShow({"floor_size", "target"}) ELSE shown
    /\ UNCHANGED <<reqVars, pngVars, jpgVars, min_dpi, max_dpi, best_dpi, best_size,
                   found_valid, result, algorithm, probed, fits, asked, seen>>

\* Mutant of KeepFloor: the floor artifact copied, not moved.
KeepFloorByCopy(f) == copy(f, "temp_output", "output")

\* `fs::rename(&temp_output, output)?`
KeepFloor(f) == rename(f, "temp_output", "output")

\* The Unreachable branch: "Save the smallest possible version?"
PdfFloorGate ==
    /\ engine = "pdf" /\ pc = "floorGate"
    /\ \E a \in Answers :
        /\ asked' = Append(asked, <<"pdf_floor", a>>)
        /\ CASE a = "error" -> /\ Return("ErrPrompt", "") /\ fs' = fs
             [] a = "no"    -> /\ fs' = remove_file(fs, "temp_output")
                               /\ Return("ErrCancelled", "")
             [] OTHER       ->
                 \E c \in KeepFloor(fs) :
                    /\ fs' = c.fs
                    /\ IF c.ok THEN Return("Ok", "Floor (Min Quality)")
                               ELSE Return("ErrIo", "")
    /\ UNCHANGED <<reqVars, shown, pngVars, pdfVars, jpgVars, calls, probed, fits, seen>>

\* `while min_dpi <= max_dpi && attempts < max_iterations`
DpiLoop == min_dpi <= max_dpi /\ attempts < max_iterations

\* The DPI loop has no else-arm for a failed run_gs: the range stays.
DpiOnFail(mid_dpi) == max_dpi

\* Mutant of DpiFits: the size compared with the original's, not the target.
DpiFitsOriginal(size) == size <= original_size

\* `if size <= target { fs::copy(..)?; found_valid = true; best_dpi = mid_dpi; ... }`
DpiFits(size) == size <= target_kb

\* Stage 2: one Ghostscript probe of the DPI search.
PdfDpiProbe ==
    /\ engine = "pdf" /\ pc = "dpi" /\ DpiLoop
    /\ LET mid_dpi == Mid(min_dpi, max_dpi) IN
       \E exit \in Exits, kb \in ProbeSizes("dpi", mid_dpi) :
        /\ attempts' = attempts + 1
        /\ Note("dpi", "gs_dpi", mid_dpi, exit, kb)
        /\ \E f1 \in Written(fs, "temp_output", exit, Art("gs", "dpi", mid_dpi, kb)) :
            IF GsOk(exit)
            THEN LET size == get_file_size_kb(f1, "temp_output") IN
                 IF DpiFits(size)
                 THEN \E c \in copy(f1, "temp_output", "output") :
                        /\ fs' = c.fs
                        /\ IF c.ok
                           THEN /\ found_valid' = TRUE
                                /\ best_dpi' = mid_dpi
                                /\ best_size' = size
                                /\ min_dpi' = mid_dpi + 1
                                /\ UNCHANGED <<max_dpi, pc, result, algorithm>>
                           ELSE /\ Return("ErrIo", "")
                                /\ UNCHANGED <<found_valid, best_dpi, best_size,
                                               min_dpi, max_dpi>>
                 ELSE /\ fs' = f1
                      /\ max_dpi' = mid_dpi - 1
                      /\ UNCHANGED <<found_valid, best_dpi, best_size, min_dpi,
                                     pc, result, algorithm>>
            ELSE /\ fs' = f1
                 /\ max_dpi' = DpiOnFail(mid_dpi)
                 /\ UNCHANGED <<found_valid, best_dpi, best_size, min_dpi,
                                pc, result, algorithm>>
    /\ UNCHANGED <<reqVars, shown, oxi_size, quality_arg, min_q, max_q, best_candidate, gray_size,
                   resize_input, min_scale, max_scale, best_scale,
                   floor_size, floor_checked, jpgVars, asked>>

\* After the DPI search: the temp file goes; a found DPI returns, else the
\* /screen fallback is next.
PdfSearchEnd ==
    /\ engine = "pdf" /\ pc = "dpi" /\ ~DpiLoop
    /\ fs' = remove_file(fs, "temp_output")
    /\ IF found_valid
       THEN Return("Ok", "Binary Search")
       ELSE /\ pc' = "fallback" /\ UNCHANGED <<result, algorithm>>
    /\ UNCHANGED <<reqVars, shown, pngVars, pdfVars, jpgVars, calls, probed, fits, asked, seen>>

\* `run_gs(input, output, "/screen", None)?`
PdfFallback ==
    /\ engine = "pdf" /\ pc = "fallback"
    /\ calls' = [calls EXCEPT !["gs_screen"] = @ + 1]
    /\ \E exit \in Exits, kb \in KB :
        /\ fs' \in Written(fs, "output", exit, Art("gs", "/screen", 0, kb))
        /\ CASE exit = "spawn" -> Return("ErrSpawn", "")
             [] exit = "fail"  -> Return("ErrTool", "")
             [] exit = "ok"    -> Return("Ok", "Fallback /screen")
    /\ UNCHANGED <<reqVars, shown, pngVars, pdfVars, jpgVars, probed, fits, asked, seen>>

PdfNext ==
    \/ PdfKeepOriginal \/ PdfPreset \/ PdfFloor \/ PdfFloorGate
    \/ PdfDpiProbe \/ PdfSearchEnd \/ PdfFallback

\* ------------------------------------------------------------ compress_jpg
JpgKeepOriginal == engine = "jpg" /\ KeepOriginal("jpg_keep")

\* `.stdout(fs::File::create(&tmp_optim)?)`: the temp file exists, empty,
\* before jpegoptim is spawned; a failed run leaves in it what it wrote to its
\* standard output before failing.
OptimWritten(f, exit, kb) ==
    CASE exit = "ok"    -> {[f EXCEPT !["tmp_optim"] = Art("jpegoptim", "input", 0, kb)]}
      [] exit = "fail"  -> {[f EXCEPT !["tmp_optim"] = Art("partial", "", 0, k)] : k \in KB}
      [] exit = "spawn" -> {[f EXCEPT !["tmp_optim"] = Art("partial", "", 0, 0)]}

\* `if optim_size <= target`
OptimFits(optim_size) == optim_size <= target_kb

\* Target given: the lossless jpegoptim pass and the return on its result.
JpgOptim ==
    /\ engine = "jpg" /\ pc = "start" /\ target_kb # NoTarget /\ ~NothingToDo
    /\ calls' = [calls EXCEPT !["jpegoptim"] = @ + 1]
    /\ \E exit \in Exits, kb \in KB :
       \E f1 \in OptimWritten(fs, exit, kb) :
        IF exit = "spawn"
        THEN /\ fs' = f1 /\ Return("ErrSpawn", "") /\ shown' = shown
        ELSE LET optim_size == get_file_size_kb(f1, "tmp_optim") IN
             /\ shown' = NerdShow({"optim_size"})
             /\ IF OptimFits(optim_size)
                THEN \E c \in copy(f1, "tmp_optim", "output") :
                        IF c.ok
                        THEN /\ fs' = remove_file(c.fs, "tmp_optim")
                             /\ Return("Ok", "jpegoptim (Lossless)")
                        ELSE /\ fs' = c.fs /\ Return("ErrIo", "")
                ELSE /\ fs' = f1
                     /\ pc' = "lossy"
                     /\ UNCHANGED <<result, algorithm>>
    /\ UNCHANGED <<reqVars, pngVars, pdfVars, jpgVars, probed, fits, asked, seen>>

\* No target: the lossless jpegoptim pass of the ladder branch, with its
\* `fs::copy(input, &tmp_optim)?` when jpegoptim fails.
JpgOptimLadder ==
    /\ engine = "jpg" /\ pc = "start" /\ target_kb = NoTarget
    /\ calls' = [calls EXCEPT !["jpegoptim"] = @ + 1]
    /\ \E exit \in Exits, kb \in KB :
       \E f1 \in OptimWritten(fs, exit, kb) :
        CASE exit = "spawn" -> /\ fs' = f1 /\ Return("ErrSpawn", "")
          [] exit = "fail"  ->
               \E c \in copy(f1, "input", "tmp_optim") :
                  /\ fs' = c.fs
                  /\ IF c.ok THEN /\ pc' = "ladder" /\ UNCHANGED <<result, algorithm>>
                             ELSE Return("ErrIo", "")
          [] exit = "ok"    -> /\ fs' = f1
                               /\ pc' = "ladder" /\ UNCHANGED <<result, algorithm>>
    /\ UNCHANGED <<reqVars, shown, pngVars, pdfVars, jpgVars, probed, fits, asked, seen>>

\* `let target_kb = original_size * percent / 100;`
RungTarget(percent) == (original_size * percent) \div 100

\* Mutant of LadderLoop: the `break` left out.
LadderLoopNoBreak == rung <= Len(Percents)

\* `for percent in [...]`: the loop runs until a rung succeeds or the list ends.
LadderLoop == ~success /\ rung <= Len(Percents)

\* One rung of the ladder: magick at `jpeg:extent=<rung target>KB`.
JpgRung ==
    /\ engine = "jpg" /\ pc = "ladder" /\ LadderLoop
    /\ calls' = [calls EXCEPT !["magick_lossy"] = @ + 1]
    /\ LET percent == Percents[rung]
           try_out == TryOut(percent) IN
       \E exit \in Exits, kb \in KB :
        CASE exit = "spawn" ->
               /\ Return("ErrSpawn", "")
               /\ UNCHANGED <<fs, jpgVars>>
          [] exit = "fail" ->
               /\ fs' \in Written(fs, try_out, exit, Absent)
               /\ rung' = rung + 1
               /\ UNCHANGED <<tried_targets, success, final_target,
                              pc, result, algorithm>>
          [] exit = "ok" ->
               LET f1 == [fs EXCEPT ![try_out] =
                            Art("magick", fs["tmp_optim"].tag, percent, kb)] IN
               /\ tried_targets' = tried_targets \cup {try_out}
               /\ IF kb <= RungTarget(percent)
                  THEN \E c \in (IF try_out # "output" THEN copy(f1, try_out, "output")
                                                     ELSE {[ok |-> TRUE, fs |-> f1]}) :
                          /\ fs' = c.fs
                          /\ IF c.ok
                             THEN /\ success' = TRUE
                                  /\ final_target' = RungTarget(percent)
                                  /\ UNCHANGED <<rung, pc, result, algorithm>>
                             ELSE /\ Return("ErrIo", "")
                                  /\ UNCHANGED <<rung, success, final_target>>
                  ELSE /\ fs' = f1
                       /\ rung' = rung + 1
                       /\ UNCHANGED <<success, final_target, pc, result, algorithm>>
    /\ UNCHANGED <<reqVars, shown, pngVars, pdfVars, probed, fits, asked, seen>>

\* `for f in tried_targets { if f != output { let _ = fs::remove_file(&f); } }`
RECURSIVE RemoveAll(_, _)
RemoveAll(f, S) ==
    IF S = {} THEN f
    ELSE LET x == CHOOSE y \in S : TRUE IN RemoveAll(remove_file(f, x), S \ {x})

\* Mutant of KeepInput: the original moved to the output, not copied.
KeepInputMoved(f) == rename(f, "input", "output")

\* Mutant of KeepInput: the copy left out.
KeepInputSkipped(f) == {[ok |-> TRUE, fs |-> f]}

\* `fs::copy(input, output)?` when no rung succeeded.
KeepInput(f) == copy(f, "input", "output")

\* After the ladder: the cleanup, and the original kept when no rung succeeded.
JpgLadderEnd ==
    /\ engine = "jpg" /\ pc = "ladder" /\ ~LadderLoop
    /\ LET f1 == RemoveAll(remove_file(fs, "tmp_optim"), tried_targets \ {"output"}) IN
       IF success
       THEN /\ fs' = f1
            /\ Return("Ok", "jpegoptim + magick (Standard Preset)")
       ELSE \E c \in KeepInput(f1) :
               /\ fs' = c.fs
               /\ IF c.ok
                  THEN Return("Ok", "jpegoptim + magick (No reduction, original kept)")
                  ELSE Return("ErrIo", "")
    /\ UNCHANGED <<reqVars, shown, pngVars, pdfVars, jpgVars, calls, probed, fits, asked, seen>>

\* `pub enum CompressionLevel { Low, Medium, High }`
Levels == {"Low", "Medium", "High"}

\* `let q = match lvl { Low => "85", Medium => "75", High => "50" }`, and
\* `-quality 80` with no level.
LevelQuality(lvl) ==
    CASE lvl = "Low"    -> 85
      [] lvl = "Medium" -> 75
      [] lvl = "High"   -> 50
      [] OTHER          -> 80

\* The knob of the lossy pass: `jpeg:extent=<target>KB` with a target, else
\* `-quality <q>`.
LossyKnob == IF target_kb # NoTarget THEN target_kb ELSE LevelQuality(level)

\* Mutant of LossyMisses: `>=` for `>`.
LossyMissesOrMeets(current_size) == current_size >= target_kb

\* `if current_size > target { handle_fallback_options(..) }`
LossyMisses(current_size) == current_size > target_kb

\* Stage 2: the single lossy magick pass at `jpeg:extent=<target>KB`.
JpgLossy ==
    /\ engine = "jpg" /\ pc = "lossy"
    /\ calls' = [calls EXCEPT !["magick_lossy"] = @ + 1]
    /\ \E exit \in Exits, kb \in KB :
        CASE exit = "spawn" -> /\ fs' = fs /\ Return("ErrSpawn", "") /\ shown' = shown
          [] exit = "fail"  ->
               /\ \E f1 \in Written(fs, "output", exit, Absent) :
                     fs' = remove_file(f1, "tmp_optim")
               /\ Return("ErrTool", "")
               /\ shown' = shown
          [] exit = "ok"    ->
               /\ fs' = remove_file([fs EXCEPT !["output"] =
                                        Art("magick", fs["tmp_optim"].tag, LossyKnob, kb)],
                                    "tmp_optim")
               /\ IF LossyMisses(kb)
                  THEN /\ pc' = "fbGrayGate" /\ UNCHANGED <<result, algorithm>>
                       /\ shown' = Show({"current_size", "target"})
                  ELSE /\ Return("Ok", "jpegoptim + ImageMagick")
                       /\ shown' = IF target_kb # NoTarget
                                    THEN NerdShow({"current_size", "target"}) ELSE shown
    /\ UNCHANGED <<reqVars, pngVars, pdfVars, jpgVars, probed, fits, asked, seen>>

\* -------------------------------------------------- handle_fallback_options
\* Confirm::new()...interact()? of handle_fallback_options, which takes no
\* auto_yes parameter.
FallbackAnswers == {"yes", "no", "error"}

\* "Convert to Grayscale (B&W) to save space?"
FbGrayGate ==
    /\ engine = "jpg" /\ pc = "fbGrayGate"
    /\ \E a \in FallbackAnswers :
        /\ asked' = Append(asked, <<"fb_gray", a>>)
        /\ CASE a = "error" -> Return("ErrPrompt", "")
             [] a = "no"    -> /\ pc' = "fbResizeGate" /\ UNCHANGED <<result, algorithm>>
             [] OTHER       -> /\ pc' = "fbGray" /\ UNCHANGED <<result, algorithm>>
    /\ UNCHANGED <<reqVars, shown, pngVars, pdfVars, jpgVars, fs, calls, probed, fits, seen>>

\* Mutant of GrayWorked: any clean grayscale run taken as a fit.
GrayWorkedAlways(gsize) == TRUE

\* `if gray_size <= target` of handle_fallback_options.
GrayWorked(gsize) == gsize <= target_kb

\* The in-place grayscale conversion of the output.
FbGray ==
    /\ engine = "jpg" /\ pc = "fbGray"
    /\ calls' = [calls EXCEPT !["jgray"] = @ + 1]
    /\ \E exit \in Exits, kb \in KB :
        CASE exit = "spawn" -> /\ fs' = fs /\ Return("ErrSpawn", "") /\ shown' = shown
          [] exit = "fail"  ->
               /\ fs' \in Written(fs, "output", exit, Absent)
               /\ pc' = "fbResizeGate" /\ UNCHANGED <<result, algorithm, shown>>
          [] exit = "ok"    ->
               /\ fs' = [fs EXCEPT !["output"] = Art("gray", @.tag, 0, kb)]
               /\ IF GrayWorked(kb)
                  THEN /\ Return("Ok", "JPG + Grayscale")
                       /\ shown' = Show({"gray_size"})
                  ELSE /\ pc' = "fbResizeGate" /\ UNCHANGED <<result, algorithm>>
                       /\ shown' = NerdShow({"gray_size"})
    /\ UNCHANGED <<reqVars, pngVars, pdfVars, jpgVars, probed, fits, asked, seen>>

\* "Resize image dimensions to fit?", and the loop's locals at entry.
FbResizeGate ==
    /\ engine = "jpg" /\ pc = "fbResizeGate"
    /\ \E a \in FallbackAnswers :
        /\ asked' = Append(asked, <<"fb_resize", a>>)
        /\ CASE a = "error" -> /\ Return("ErrPrompt", "")
                               /\ UNCHANGED <<min_scale, max_scale, best_scale, attempts>>
             [] a = "no"    -> /\ Return("Ok", "Best Effort")
                               /\ UNCHANGED <<min_scale, max_scale, best_scale, attempts>>
             [] OTHER       -> /\ min_scale' = MinScale0
                               /\ max_scale' = JpgMaxScale0
                               /\ best_scale' = NoBest
                               /\ attempts' = 0
                               /\ pc' = "fbResize"
                               /\ UNCHANGED <<result, algorithm>>
    /\ UNCHANGED <<reqVars, shown, oxi_size, quality_arg, min_q, max_q, best_candidate, gray_size,
                   resize_input, pdfVars, jpgVars, fs, calls, probed, fits, seen>>

\* One in-place magick -resize probe of the fallback scale search.
FbResizeProbe ==
    /\ engine = "jpg" /\ pc = "fbResize" /\ ResizeLoop
    /\ LET mid_scale == Mid(min_scale, max_scale) IN
       \E exit \in Exits, kb \in ProbeSizes("jscale", mid_scale) :
        /\ attempts' = attempts + 1
        /\ Note("jscale", "jresize", mid_scale, exit, kb)
        /\ CASE exit = "spawn" ->
                 /\ Return("ErrSpawn", "")
                 /\ UNCHANGED <<fs, min_scale, max_scale, best_scale>>
             [] exit = "fail" ->
                 /\ fs' \in Written(fs, "output", exit, Absent)
                 /\ max_scale' = ScaleOnFail(mid_scale)
                 /\ UNCHANGED <<min_scale, best_scale, pc, result, algorithm>>
             [] exit = "ok" ->
                 /\ fs' = [fs EXCEPT !["output"] = Art("resize", @.tag, mid_scale, kb)]
                 /\ IF kb <= target_kb
                    THEN /\ best_scale' = Some(mid_scale, 0)
                         /\ min_scale' = mid_scale + 1
                         /\ UNCHANGED max_scale
                    ELSE /\ max_scale' = mid_scale - 1
                         /\ UNCHANGED <<min_scale, best_scale>>
                 /\ UNCHANGED <<pc, result, algorithm>>
    /\ UNCHANGED <<reqVars, shown, oxi_size, quality_arg, min_q, max_q, best_candidate, gray_size,
                   resize_input, pdfVars, jpgVars, asked>>

\* `if best_scale > 0`: the final resize comes next, else "Best Effort".
FbResizeEnd ==
    /\ engine = "jpg" /\ pc = "fbResize" /\ ~ResizeLoop
    /\ IF best_scale.some
       THEN /\ pc' = "fbFinal" /\ UNCHANGED <<result, algorithm>>
       ELSE Return("Ok", "Best Effort")
    /\ UNCHANGED <<reqVars, shown, pngVars, pdfVars, jpgVars, fs, calls, probed, fits, asked, seen>>

\* The final in-place resize at best_scale; only a spawn error is looked at.
FbFinal ==
    /\ engine = "jpg" /\ pc = "fbFinal"
    /\ calls' = [calls EXCEPT !["jfinal"] = @ + 1]
    /\ \E exit \in Exits, kb \in KB :
        CASE exit = "spawn" -> /\ fs' = fs /\ Return("ErrSpawn", "")
          [] exit = "fail"  -> /\ fs' \in Written(fs, "output", exit, Absent)
                               /\ Return("Ok", "JPG + Resize")
          [] exit = "ok"    ->
               /\ fs' = [fs EXCEPT !["output"] = Art("resize", @.tag, best_scale.knob, kb)]
               /\ Return("Ok", "JPG + Resize")
    /\ UNCHANGED <<reqVars, shown, pngVars, pdfVars, jpgVars, probed, fits, asked, seen>>

JpgNext ==
    \/ JpgKeepOriginal \/ JpgOptimLadder \/ JpgRung \/ JpgLadderEnd
    \/ JpgOptim \/ JpgLossy
    \/ FbGrayGate \/ FbGray \/ FbResizeGate \/ FbResizeProbe \/ FbResizeEnd \/ FbFinal

\* -------------------------------------------------------------------- main
\* std::process::exit(code), or main returning (code 0).
Exit(code) ==
    /\ mpc' = "exited"
    /\ exit_code' = code

\* `// Check if output file already exists`, then on to compress_file.
MainOverwrite ==
    /\ mpc = "overwrite" /\ pc = "main"
    /\ IF cli_output /\ fs["output"] # Absent
       THEN IF auto_yes
            THEN /\ Exit(0) /\ UNCHANGED <<pc, asked>>
            ELSE \E a \in {"yes", "no", "error"} :
                    /\ asked' = Append(asked, <<"overwrite", a>>)
                    /\ CASE a = "yes"   -> /\ mpc' = "engine" /\ pc' = "start"
                                           /\ UNCHANGED exit_code
                         [] a = "no"    -> /\ Exit(0) /\ UNCHANGED pc
                         [] a = "error" -> /\ Exit(1) /\ UNCHANGED pc
       ELSE /\ mpc' = "engine" /\ pc' = "start"
            /\ UNCHANGED <<exit_code, asked>>
    /\ UNCHANGED <<engine, target_kb, auto_yes, level, nerd, original_size, mono, thr, litter,
                   cli_size, parsed, cli_output, fs, result, algorithm, pngVars, pdfVars,
                   jpgVars, calls, probed, fits, shown, seen>>

\* Mutant of NewKb: the size rounded up to whole KB.
NewKbRoundedUp(f) == get_file_size_kb(f, "output") + 1

\* `let new_kb = meta_new.len() / 1024;` with 0 for `!Path::new(&output_path).exists()`
NewKb(f) == get_file_size_kb(f, "output")

\* The match on compress_file's result: the output checks, and the error branch.
MainFinish ==
    /\ mpc = "engine" /\ pc = "done"
    /\ IF result = "Ok"
       THEN IF fs["output"] = Absent
            THEN /\ Exit(1) /\ fs' = fs
            ELSE IF NewKb(fs) = 0
                 THEN /\ fs' = remove_file(fs, "output") /\ Exit(1)
                 ELSE /\ Exit(0) /\ fs' = fs
       ELSE /\ Exit(1) /\ fs' = fs
    /\ UNCHANGED <<engine, target_kb, auto_yes, level, nerd, original_size, mono, thr, litter,
                   cli_size, parsed, cli_output, pc, result, algorithm, pngVars, pdfVars,
                   jpgVars, calls, probed, fits, asked, shown, seen>>

\* ------------------------------------------------------------------ utils
\* The characters `\d` matches that f64's parser accepts.
Digit == {"0", "1", "2", "3", "4", "5", "6", "7", "8", "9"}

DigitValue(c) ==
    CASE c = "0" -> 0 [] c = "1" -> 1 [] c = "2" -> 2 [] c = "3" -> 3 [] c = "4" -> 4
      [] c = "5" -> 5 [] c = "6" -> 6 [] c = "7" -> 7 [] c = "8" -> 8 [] c = "9" -> 9

\* `(?i)` and `.to_lowercase()` on the letters a unit is written with.
ToLower(c) ==
    CASE c = "K" -> "k" [] c = "M" -> "m" [] c = "G" -> "g" [] c = "B" -> "b"
      [] OTHER -> c

\* `\d+` from position i: the length of the run of digits that starts there.
RECURSIVE DigitRun(_, _)
DigitRun(s, i) ==
    IF i <= Len(s) /\ s[i] \in Digit THEN 1 + DigitRun(s, i + 1) ELSE 0

\* The number the digits s[a..b] write, 0 for none.
RECURSIVE Decimal(_, _, _)
Decimal(s, a, b) ==
    IF b < a THEN 0 ELSE 10 * Decimal(s, a, b - 1) + DigitValue(s[b])

RECURSIVE Pow10(_)
Pow10(n) == IF n = 0 THEN 1 ELSE 10 * Pow10(n - 1)

\* `(k|m|kb|mb|g|gb)`
UnitNames == {<<"k">>, <<"m">>, <<"k", "b">>, <<"m", "b">>, <<"g">>, <<"g", "b">>}

\* re.captures(size_str): whether `^(\d+(?:\.\d+)?)(k|m|kb|mb|g|gb)?$` matches
\* and, when it does, group 1 as the fraction digits / 10^places and group 2
\* in lower case ("k" when absent).
Captures(s) ==
    LET n1 == DigitRun(s, 1)
        n2 == IF n1 + 1 <= Len(s) /\ s[n1 + 1] = "." THEN DigitRun(s, n1 + 2) ELSE 0
        num_end == IF n2 > 0 THEN n1 + 1 + n2 ELSE n1
        rest == [i \in 1..(Len(s) - num_end) |-> ToLower(s[num_end + i])]
    IN  IF n1 > 0 /\ (rest = <<>> \/ rest \in UnitNames)
        THEN [matched |-> TRUE,
              digits  |-> Decimal(s, 1, n1) * Pow10(n2) + Decimal(s, n1 + 2, n1 + 1 + n2),
              places  |-> n2,
              unit    |-> IF rest = <<>> THEN <<"k">> ELSE rest]
        ELSE [matched |-> FALSE, digits |-> 0, places |-> 0, unit |-> <<>>]

MultiplierDecimal(unit) ==
    CASE unit \in {<<"g">>, <<"g", "b">>} -> 1000 * 1000
      [] unit \in {<<"m">>, <<"m", "b">>} -> 1000
      [] OTHER                            -> 1

\* The arms of `match unit.as_str()`: the factor val is multiplied by.
Multiplier(unit) ==
    CASE unit \in {<<"g">>, <<"g", "b">>} -> 1024 * 1024
      [] unit \in {<<"m">>, <<"m", "b">>} -> 1024
      [] OTHER                            -> 1

\* parse_size: `(val * factor) as u64` truncates; NoTarget stands for None.
parse_size(s) ==
    LET caps == Captures(s)
    IN  IF ~caps.matched THEN NoTarget
        ELSE (caps.digits * Multiplier(caps.unit)) \div Pow10(caps.places)

\* `// 10GB limit`
MaxSizeKb == 10485760

TooLargeInclusive(kb) == kb >= MaxSizeKb

\* `Some(kb) if kb > 10485760`
TooLarge(kb) == kb > MaxSizeKb

\* validate_size: [ok |-> FALSE] for an Err, [ok |-> TRUE, kb |-> kb] for Ok(kb).
validate_size(s) ==
    IF s = <<>> THEN [ok |-> FALSE, kb |-> 0]
    ELSE LET kb == parse_size(s)
         IN  CASE kb = 0       -> [ok |-> FALSE, kb |-> 0]
               [] kb = NoTarget -> [ok |-> FALSE, kb |-> 0]
               [] TooLarge(kb) -> [ok |-> FALSE, kb |-> 0]
               [] OTHER        -> [ok |-> TRUE, kb |-> kb]

\* `// 6. Validate size parameter if provided`; past it, the target is what
\* parse_size yields for the argument (for the empty string validate_size
\* answers before it asks parse_size, which yields None for it).
MainValidateSize ==
    /\ mpc = "size" /\ pc = "main"
    /\ parsed' = parse_size(cli_size)
    /\ IF validate_size(cli_size).ok
       THEN /\ mpc' = "overwrite"
            /\ target_kb' = parse_size(cli_size)
            /\ UNCHANGED exit_code
       ELSE /\ Exit(1)
            /\ UNCHANGED target_kb
    /\ UNCHANGED <<engine, auto_yes, level, nerd, original_size, mono, thr, litter, cli_size,
                   cli_output, pc, fs, result, algorithm, pngVars, pdfVars, jpgVars,
                   calls, probed, fits, asked, quality_arg, shown, seen>>

\* ------------------------------------------------------------ specification
\* The sizes of input files the requests are drawn from: the target and one
\* above it and, for a PDF, one that selects the narrowest bracket of DpiRange
\* (the others select the widest).
InputSizes(e) ==
    {MaxKB - 1, MaxKB} \cup (IF e = "pdf" THEN {10 * (MaxKB - 1) + 1} ELSE {})

\* The input sizes of the well behaved runs: for a PDF, one in each bracket of
\* DpiRange.
BracketSizes(e) ==
    InputSizes(e)
    \cup (IF e = "pdf" THEN {2 * (MaxKB - 1) + 1, 3 * (MaxKB - 1) + 1} ELSE {})

Zero(S) == [x \in S |-> 0]
Empty(S) == [x \in S |-> {}]

\* The engines' locals and the history at their initial values.
InitLocals ==
    /\ result = "none" /\ algorithm = ""
    /\ oxi_size = 0 /\ gray_size = 0 /\ resize_input = "oxi_out"
    /\ min_q = MinQ0 /\ max_q = MaxQ0 /\ best_candidate = NoBest
    /\ min_scale = MinScale0
    /\ max_scale = IF engine = "jpg" THEN JpgMaxScale0 ELSE MaxScale0
    /\ best_scale = NoBest /\ attempts = 0
    /\ floor_size = 0 /\ floor_checked = FALSE
    /\ min_dpi = DpiRange(original_size, target_kb)[1]
    /\ max_dpi = DpiRange(original_size, target_kb)[2]
    /\ best_dpi = 0 /\ best_size = 0 /\ found_valid = FALSE
    /\ rung = 1 /\ tried_targets = {} /\ success = FALSE /\ final_target = original_size
    /\ calls = Zero(Stages) /\ probed = Empty(Searches) /\ fits = Empty(Searches)
    /\ asked = <<>> /\ seen = Empty(Searches) /\ quality_arg = <<0, 0>>
    /\ shown = IF target_kb = NoTarget THEN {} ELSE {"target"}

\* A request as compress_file dispatches it, with the engines' locals at
\* their initial values and no file yet at the output path.  The input size
\* is drawn from `sizes`.
InitRun(sizes) ==
    /\ engine \in {"png", "pdf", "jpg"}
    /\ target_kb \in {NoTarget} \cup Targets
    /\ auto_yes \in BOOLEAN
    /\ original_size \in sizes
    /\ fs = [f \in Files |->
                IF f = "input" THEN Art("original", "", 0, original_size) ELSE Absent]
    /\ pc = "start"
    /\ InitLocals
    /\ cli_size = <<>> /\ parsed = NoTarget
    /\ cli_output = FALSE /\ mpc = "engine" /\ exit_code = -1

\* A request whose codecs leave nothing at their destination when they fail.
InitRequest(sizes) ==
    /\ InitRun(sizes)
    /\ litter = FALSE

\* Codecs as black boxes: any exit status, any size.
Init ==
    /\ InitRequest(InputSizes(engine))
    /\ level = "none"
    /\ nerd = FALSE
    /\ mono = FALSE
    /\ thr = Zero(Searches)

\* Well behaved codecs: every invocation exits cleanly and, in each search,
\* the size is non-decreasing in the knob.  thr[s] is the largest knob of
\* search s whose size is <= target, one below the range when there is none.
\* A search that a run cannot reach gets 0.
InitMono ==
    /\ InitRequest(BracketSizes(engine))
    /\ level = "none"
    /\ nerd = FALSE
    /\ mono = TRUE
    /\ thr \in
         CASE target_kb = NoTarget -> {Zero(Searches)}
           [] engine = "png" ->
                {[Zero(Searches) EXCEPT !["quality"] = t] : t \in MinQ0..MaxQ0}
                \cup {[Zero(Searches) EXCEPT !["quality"] = MinQ0 - 1, !["scale"] = t] :
                        t \in (MinScale0 - 1)..MaxScale0}
           [] engine = "pdf" ->
                {[Zero(Searches) EXCEPT !["dpi"] = t] : t \in (min_dpi - 1)..max_dpi}
           [] engine = "jpg" ->
                {[Zero(Searches) EXCEPT !["jscale"] = t] :
                        t \in (MinScale0 - 1)..JpgMaxScale0}

Next == PngNext \/ PdfNext \/ JpgNext

\* Every engine, black-box codecs.
Spec == Init /\ [][Next]_vars

\* Every engine, black-box codecs, each codec invocation and each prompt
\* returning: the engine's next step is taken whenever there is one.
SpecLive == Init /\ [][Next]_vars /\ WF_vars(Next)

\* Every engine, well behaved codecs.
SpecMono == InitMono /\ [][Next]_vars

\* One engine, black-box codecs.
InitPng == Init /\ engine = "png"
SpecPng == InitPng /\ [][PngNext]_vars

InitPdf == Init /\ engine = "pdf"
SpecPdf == InitPdf /\ [][PdfNext]_vars

InitJpg == Init /\ engine = "jpg"
SpecJpg == InitJpg /\ [][JpgNext]_vars

\* compress_pdf with an input size in each bracket of DpiRange, black-box codecs.
InitBrackets ==
    /\ InitRequest(BracketSizes(engine))
    /\ engine = "pdf"
    /\ level = "none"
    /\ nerd = FALSE
    /\ mono = FALSE
    /\ thr = Zero(Searches)
SpecBrackets == InitBrackets /\ [][PdfNext]_vars

\* The input sizes of the preset-only runs: on and above each threshold of
\* Preset.
PresetSizes == {1000, 1001, 10000, 10001, 50000, 50001}

\* compress_pdf with, for the runs with no target, an input size on each side
\* of each threshold of Preset; black-box codecs.
InitPreset ==
    /\ InitRequest(IF target_kb = NoTarget THEN InputSizes(engine) \cup PresetSizes
                                            ELSE InputSizes(engine))
    /\ engine = "pdf"
    /\ level = "none"
    /\ nerd = FALSE
    /\ mono = FALSE
    /\ thr = Zero(Searches)
SpecPreset == InitPreset /\ [][PdfNext]_vars

\* Every engine in either verbosity mode, black-box codecs.
InitNerd ==
    /\ InitRequest(InputSizes(engine))
    /\ level = "none"
    /\ nerd \in BOOLEAN
    /\ mono = FALSE
    /\ thr = Zero(Searches)
SpecNerd == InitNerd /\ [][Next]_vars

\* compress_jpg, black-box codecs that may leave a file when they fail.
InitLitter ==
    /\ InitRun(InputSizes(engine))
    /\ engine = "jpg"
    /\ litter = TRUE
    /\ level = "none"
    /\ nerd = FALSE
    /\ mono = FALSE
    /\ thr = Zero(Searches)
SpecLitter == InitLitter /\ [][JpgNext]_vars

\* The file found at the output path when main starts: none, or an earlier one.
OldOutputs == {Absent, Art("old", "", 0, MaxKB)}

\* main from the overwrite check on, the size argument already validated:
\* with an output file found at the --output path, with one found at the
\* default path, and with none.
InitMain ==
    /\ engine \in {"png", "pdf", "jpg"}
    /\ target_kb \in {NoTarget} \cup Targets
    /\ auto_yes \in BOOLEAN
    /\ original_size \in InputSizes(engine)
    /\ \E old \in OldOutputs :
          fs = [f \in Files |->
                  CASE f = "input"  -> Art("original", "", 0, original_size)
                    [] f = "output" -> old
                    [] OTHER        -> Absent]
    /\ cli_output \in (IF fs["output"] = Absent THEN {FALSE} ELSE BOOLEAN)
    /\ pc = "main" /\ mpc = "overwrite" /\ exit_code = -1
    /\ cli_size = <<>> /\ parsed = NoTarget /\ litter = FALSE
    /\ InitLocals
    /\ level = "none"
    /\ nerd = FALSE
    /\ mono = FALSE
    /\ thr = Zero(Searches)
MainNext == MainOverwrite \/ Next \/ MainFinish
SpecMain == InitMain /\ [][MainNext]_vars

\* The longest --size argument tried.
MaxLen == 4

\* The characters --size arguments are written with: digits, the point, unit
\* letters in either case, and one that no size contains.
Chars == {"0", "1", ".", "k", "M", "g", "b", "B", "-"}

RECURSIVE StringsOf(_)
StringsOf(n) ==
    IF n = 0 THEN {<<>>} ELSE {Append(s, c) : s \in StringsOf(n - 1), c \in Chars}

SizeStrings == UNION {StringsOf(n) : n \in 0..MaxLen}

\* main at the validation of a --size argument.
InitSize ==
    /\ engine = "png"
    /\ target_kb = NoTarget
    /\ auto_yes = FALSE
    /\ original_size = MaxKB
    /\ fs = [f \in Files |->
                IF f = "input" THEN Art("original", "", 0, original_size) ELSE Absent]
    /\ cli_size \in SizeStrings /\ parsed = NoTarget /\ litter = FALSE
    /\ cli_output = FALSE
    /\ pc = "main" /\ mpc = "size" /\ exit_code = -1
    /\ InitLocals
    /\ level = "none"
    /\ nerd = FALSE
    /\ mono = FALSE
    /\ thr = Zero(Searches)
SpecSize == InitSize /\ [][MainValidateSize]_vars

\* compress_jpg with and without a named level, black-box codecs.
InitLevel ==
    /\ InitRequest(InputSizes(engine))
    /\ engine = "jpg"
    /\ level \in {"none"} \cup Levels
    /\ nerd = FALSE
    /\ mono = FALSE
    /\ thr = Zero(Searches)
SpecLevel == InitLevel /\ [][JpgNext]_vars

\* ------------------------------------------------------------------ claims
Max(S) == CHOOSE x \in S : \A y \in S : y <= x
Last(q) == q[Len(q)]
NoCodecRun == \A st \in Stages : calls[st] = 0

\* C1: in compress_png, when the quality search ends with a best candidate
\* (q, size), the file copied to the output is the artifact of the probe at
\* quality q: before the polish pass its size is the recorded size, <= target.
C1_OutputIsBestProbe ==
    (engine = "png" /\ pc = "polish") =>
        /\ fs["output"].tag = "pngquant"
        /\ fs["output"].knob = best_candidate.knob
        /\ fs["output"].kb = best_candidate.size
        /\ fs["output"].kb <= target_kb

\* C2: in each engine, with a target >= the original size no codec is run;
\* on consent (or auto_yes) the output is a copy of the input and the engine
\* returns Ok (a failed copy is the one other return, and writes nothing); on
\* refusal it returns the cancellation error and the output is not written.
C2_KeepOriginal ==
    (target_kb # NoTarget /\ target_kb >= original_size) =>
        /\ NoCodecRun
        /\ pc = "done" =>
            /\ Len(asked) = 1
            /\ Yes(asked[1][2]) =>
                \/ result = "Ok" /\ fs["output"] = fs["input"]
                \/ result = "ErrIo" /\ fs["output"] = Absent
            /\ asked[1][2] = "no" => result = "ErrCancelled" /\ fs["output"] = Absent
            /\ result = "Ok" => Yes(asked[1][2])
        /\ \A f \in Files \ {"input", "output"} : fs[f] = Absent

C2_Witness ==
    /\ engine = "jpg" /\ target_kb = original_size /\ pc = "done"
    /\ asked = <<<<"jpg_keep", "yes">>>> /\ result = "Ok" /\ fs["output"] = fs["input"]

\* C3: in compress_pdf, when the /screen floor run succeeded with
\* floor_size > target, no DPI probe is ever issued: the run is at the
\* Unreachable gate or has returned from it.
C3_NoProbeBelowFloor ==
    (engine = "pdf" /\ floor_checked /\ floor_size > target_kb) =>
        /\ calls["gs_dpi"] = 0 /\ probed["dpi"] = {} /\ calls["gs_screen"] = 0
        /\ pc \in {"floorGate", "done"}
        /\ pc = "done" => Len(asked) = 1 /\ asked[1][1] = "pdf_floor"

C3_Witness ==
    /\ engine = "pdf" /\ floor_checked /\ floor_size > target_kb
    /\ pc = "done" /\ result = "Ok" /\ calls["gs_floor"] = 1

\* C4: in the Unreachable branch, with consent or auto_yes the output is the
\* /screen floor artifact, moved from the temp path, and the engine returns
\* Ok (a failed rename is the one other return); on refusal the engine
\* returns the cancellation error, the temp file is removed and the output is
\* not written.
C4_FloorKeptOrCancelled ==
    (engine = "pdf" /\ floor_checked /\ floor_size > target_kb /\ pc = "done") =>
        /\ Yes(Last(asked)[2]) =>
            \/ /\ result = "Ok"
               /\ fs["output"] = Art("gs", "/screen", 0, floor_size)
               /\ fs["temp_output"] = Absent
            \/ result = "ErrIo" /\ fs["output"] = Absent
        /\ Last(asked)[2] = "no" =>
            /\ result = "ErrCancelled"
            /\ fs["temp_output"] = Absent
            /\ fs["output"] = Absent
        /\ result = "Ok" => Yes(Last(asked)[2])

C4_Witness ==
    /\ engine = "pdf" /\ floor_checked /\ floor_size > target_kb /\ pc = "done"
    /\ Last(asked) = <<"pdf_floor", "auto">> /\ result = "Ok"
    /\ fs["output"] = Art("gs", "/screen", 0, floor_size)

\* C5: with well behaved codecs (clean exits, size non-decreasing in the
\* knob) and a knob of the initial range meeting the target, each of the PNG
\* quality, PNG scale and PDF DPI searches ends within its budget with a best
\* candidate whose size is <= target and whose knob is the largest knob of the
\* range meeting the target.
C5_SearchFindsLargest ==
    /\ (engine = "png" /\ pc = "quant" /\ ~(min_q <= max_q /\ attempts < MaxProbes)
           /\ thr["quality"] >= MinQ0) =>
          /\ best_candidate.some
          /\ best_candidate.knob = thr["quality"]
          /\ best_candidate.size <= target_kb
          /\ calls["pngquant"] <= MaxProbes
    /\ (engine = "png" /\ pc = "resize"
           /\ ~(min_scale <= max_scale /\ attempts < MaxProbes)
           /\ thr["scale"] >= MinScale0) =>
          /\ best_scale.some
          /\ best_scale.knob = thr["scale"]
          /\ best_scale.size <= target_kb
          /\ calls["resize"] <= MaxProbes
    /\ (engine = "pdf" /\ pc = "dpi"
           /\ ~(min_dpi <= max_dpi /\ attempts < max_iterations)
           /\ thr["dpi"] >= DpiRange(original_size, target_kb)[1]) =>
          /\ found_valid
          /\ best_dpi = thr["dpi"]
          /\ best_size <= target_kb
          /\ calls["gs_dpi"] <= max_iterations

C5_Witness ==
    /\ engine = "pdf" /\ pc = "dpi" /\ min_dpi > max_dpi
    /\ thr["dpi"] = 150 /\ DpiRange(original_size, target_kb) = <<150, 600>>
    /\ found_valid /\ best_dpi = 150 /\ calls["gs_dpi"] >= 9

\* C6: in each search loop, while no probe has met the target there is no
\* best candidate, and the loop issues at most its budget of codec
\* invocations (14 for the DPI loop, 8 for the others), whatever the exits.
C6_NoneFoundWithinBudget ==
    /\ calls["pngquant"] <= MaxProbes /\ calls["resize"] <= MaxProbes
    /\ calls["jresize"] <= MaxProbes /\ calls["gs_dpi"] <= max_iterations
    /\ fits["quality"] = {} => ~best_candidate.some
    /\ fits["scale"] = {} /\ fits["jscale"] = {} => ~best_scale.some
    /\ fits["dpi"] = {} => ~found_valid
    /\ (pc = "fallback" /\ result = "none") => ~found_valid
    /\ (engine = "png" /\ pc \in {"gray", "smallestGate"}) =>
          \/ ~best_candidate.some /\ pc = "gray"
          \/ ~best_scale.some /\ pc = "smallestGate"

C6_Witness ==
    /\ engine = "pdf" /\ pc = "fallback" /\ ~found_valid
    /\ calls["gs_dpi"] = max_iterations /\ fits["dpi"] = {}

\* C7: in every search loop a failed invocation at knob mid is followed by
\* hi = mid - 1, so no knob value is probed twice in one search: the probes
\* issued are as many as the distinct knobs probed.
C7_NoKnobProbedTwice ==
    /\ calls["pngquant"] = Cardinality(probed["quality"])
    /\ calls["resize"] = Cardinality(probed["scale"])
    /\ calls["gs_dpi"] = Cardinality(probed["dpi"])
    /\ calls["jresize"] = Cardinality(probed["jscale"])

\* C8: in every search loop lo never decreases and hi never increases,
\* lo <= hi + 1 in every state, and the probes issued never exceed the budget.
RangesInOrder ==
    /\ min_q <= max_q + 1 /\ min_scale <= max_scale + 1 /\ min_dpi <= max_dpi + 1
    /\ calls["pngquant"] <= MaxProbes /\ calls["resize"] <= MaxProbes
    /\ calls["jresize"] <= MaxProbes /\ calls["gs_dpi"] <= max_iterations

RangesNarrow ==
    /\ min_q' >= min_q /\ max_q' <= max_q
    /\ min_scale' >= min_scale /\ max_scale' <= max_scale
    /\ min_dpi' >= min_dpi /\ max_dpi' <= max_dpi

C8_RangeNarrowsMonotonically ==
    [][RangesInOrder /\ RangesInOrder' /\ RangesNarrow]_vars

C8_Witness ==
    /\ engine = "pdf" /\ pc = "dpi" /\ min_dpi = max_dpi + 1
    /\ min_dpi > 150 /\ max_dpi < 600 /\ calls["gs_dpi"] = max_iterations

\* C9: in every search loop the best candidate is none until a probe exits
\* cleanly with size <= target, and from then on its knob is the largest knob
\* among the probes that did so (until the engine returns on an I/O error).
BestIsLargestFit(s, some, knob) ==
    /\ some <=> fits[s] # {}
    /\ some => knob = Max(fits[s])

C9_BestIsLargestFit ==
    result # "ErrIo" =>
        /\ BestIsLargestFit("quality", best_candidate.some, best_candidate.knob)
        /\ engine = "png" => BestIsLargestFit("scale", best_scale.some, best_scale.knob)
        /\ engine = "jpg" => BestIsLargestFit("jscale", best_scale.some, best_scale.knob)
        /\ BestIsLargestFit("dpi", found_valid, best_dpi)

C9_Witness ==
    /\ engine = "png" /\ pc = "resize"
    /\ Cardinality(fits["scale"]) >= 3 /\ best_scale.knob = Max(fits["scale"])
    /\ Cardinality(probed["scale"]) > Cardinality(fits["scale"])

\* C10: in compress_png the stages come in a fixed order: grayscale is not
\* invoked before the quality search has ended without a best candidate, and
\* no resize probe is issued before the grayscale conversion was invoked.
C10_PngStageOrder ==
    /\ calls["gray"] > 0 =>
          /\ min_q > max_q \/ calls["pngquant"] = MaxProbes
          /\ ~best_candidate.some
          /\ pc # "quant"
    /\ calls["resize"] > 0 => calls["gray"] > 0
    /\ calls["pngquant"] > 0 => calls["oxipng"] > 0

C10_Witness ==
    /\ engine = "png" /\ calls["resize"] > 0 /\ calls["gray"] = 1
    /\ calls["pngquant"] > 0 /\ ~best_candidate.some

\* C11: under auto_yes no engine asks the user: every consent gate passed,
\* those of the JPEG fallback path included, took the fixed answer.
C11_NoPromptUnderAutoYes ==
    auto_yes => \A i \in 1..Len(asked) : asked[i][2] = "auto"

\* C12: on every exit path of every engine, error returns included, no temp
\* artifact of the run is left on disk: only the input and the output remain.
TempFiles == Files \ {"input", "output"}

C12_NoTempLeftOnExit ==
    pc = "done" => \A f \in TempFiles : fs[f] = Absent

\* C13: in compress_jpg, with or without a target, after a failed jpegoptim
\* pass the lossy stage is run on the original image: what it reads is the
\* jpegoptim result or a copy of the input, never the leftovers of the failed
\* pass, and no output is made of such leftovers.
C13_OriginalFeedsLossy ==
    engine = "jpg" =>
        /\ pc \in {"lossy", "ladder"} => fs["tmp_optim"].tag \in {"jpegoptim", "original"}
        /\ result = "Ok" => fs["output"].tag # "partial" /\ fs["output"].of # "partial"

\* C14: in compress_jpg with no target the ladder probes 60, 65, ..., 95 in
\* ascending order, one magick invocation per rung; a rung is accepted when its
\* invocation exits cleanly with a size <= original_size * percent / 100, every
\* rung tried before it was rejected, no probe follows the accepted rung, and
\* the output is the accepted rung's artifact.
Extent(percent) == (original_size * percent) \div 100

C14_LadderStep ==
    (engine = "jpg" /\ target_kb = NoTarget) =>
        /\ rung' \in {rung, rung + 1}
        /\ rung' = rung + 1 => calls'["magick_lossy"] = calls["magick_lossy"] + 1
        /\ calls'["magick_lossy"] <= Len(Percents)
        /\ success => calls'["magick_lossy"] = calls["magick_lossy"]
        /\ success' =>
              /\ fs'["output"].tag = "magick"
              /\ fs'["output"].knob = Percents[rung']
              /\ fs'["output"].kb <= Extent(Percents[rung'])
              /\ final_target' = Extent(Percents[rung'])
              /\ \A f \in tried_targets' :
                    (fs'[f] # Absent /\ fs'[f].knob < Percents[rung']) =>
                        fs'[f].kb > Extent(fs'[f].knob)
        /\ (~success' /\ pc' = "ladder") =>
              \A f \in tried_targets' :
                    /\ fs'[f].tag = "magick"
                    /\ rung' <= Len(Percents) => fs'[f].knob < Percents[rung']
                    /\ fs'[f].kb > Extent(fs'[f].knob)

C14_FirstFittingRungWins == [][C14_LadderStep]_vars

C14_Witness ==
    /\ engine = "jpg" /\ target_kb = NoTarget /\ pc = "done" /\ result = "Ok"
    /\ success /\ rung = 3 /\ calls["magick_lossy"] = 3
    /\ fs["output"].knob = 70 /\ tried_targets = {"output", "tgt65p", "tgt70p"}

\* C15: in compress_jpg with no target, when the ladder ends with no rung
\* accepted, the engine returns Ok and the output is a copy of the input, not
\* the rejected 60% artifact written to the output path (the copy failing is
\* the one other return).
C15_OriginalKeptWhenNoRung ==
    (engine = "jpg" /\ target_kb = NoTarget /\ pc = "done"
        /\ ~success /\ rung > Len(Percents)) =>
        \/ /\ result = "Ok"
           /\ fs["output"] = fs["input"]
           /\ algorithm = "jpegoptim + magick (No reduction, original kept)"
        \/ result = "ErrIo"

C15_Witness ==
    /\ engine = "jpg" /\ target_kb = NoTarget /\ pc = "done" /\ result = "Ok"
    /\ ~success /\ rung > Len(Percents) /\ "output" \in tried_targets
    /\ calls["magick_lossy"] = Len(Percents) /\ fs["output"] = fs["input"]

\* C16: in compress_jpg with a target below the original size: when the
\* lossless pass's output is <= target the engine returns it as the output
\* and magick is never invoked; otherwise magick is invoked exactly once, at
\* extent = target, and the fallback path is entered only when that pass's
\* output is above the target.
FallbackPcs == {"fbGrayGate", "fbGray", "fbResizeGate", "fbResize", "fbFinal"}

C17_LevelSetsQuality ==
    (engine = "jpg" /\ target_kb = NoTarget /\ level \in Levels
        /\ pc = "done" /\ result = "Ok") =>
        /\ calls["magick_lossy"] = 1
        /\ fs["output"].tag = "magick"
        /\ fs["output"].knob = LevelQuality(level)
        /\ algorithm = "jpegoptim + ImageMagick"

\* C18: the resize stage of the JPEG fallback is the PNG resize search: it
\* starts on the range [1,100], and every probe resizes the unchanged base
\* image, never the artifact of an earlier probe.
C18_FallbackResizeAsPng ==
    engine = "jpg" =>
        /\ (pc = "fbResize" /\ attempts = 0) =>
              min_scale = MinScale0 /\ max_scale = MaxScale0
        /\ fs["output"].tag = "resize" => fs["output"].of # "resize"

\* C19: in compress_png, when the resize search ends with a best scale
\* (s, size), the file copied to the output is the artifact of the probe at
\* scale s, of the recorded size <= target; and when no scale met the target
\* and the user consents, the file saved is the artifact of the smallest scale
\* probed.
Min(S) == CHOOSE x \in S : \A y \in S : x <= y

C19_OutputIsBestScale ==
    engine = "png" =>
        /\ pc = "polishResize" =>
              /\ fs["output"].tag = "resize"
              /\ fs["output"].knob = best_scale.knob
              /\ fs["output"].kb = best_scale.size
              /\ fs["output"].kb <= target_kb
        /\ (pc = "done" /\ asked # <<>> /\ Last(asked)[1] = "png_smallest"
               /\ Yes(Last(asked)[2])) =>
              \/ /\ result = "Ok"
                 /\ fs["output"].tag = "resize"
                 /\ fs["output"].knob = Min(probed["scale"])
              \/ result = "ErrIo" /\ fs["resize_out"] # Absent

\* C20: in compress_png, when the user declines resizing, the engine returns
\* Ok with the output set to the color candidate of the quantization stage,
\* or to the stripped (oxipng) image when the quantization stage produced no
\* artifact (the copy of an existing file failing is the one other return).
C20_BestEffortOnDecline ==
    (engine = "png" /\ pc = "done" /\ asked # <<>>
        /\ Last(asked) \in {<<"png_color_resize", "no">>, <<"png_resize", "no">>}) =>
        \/ result = "Ok" /\ fs["output"].tag = "pngquant"
        \/ result = "Ok" /\ fs["output"].tag = "oxipng"
        \/ result = "ErrIo" /\ fs["pq_out"] # Absent

\* C21: an unreachable target ends in a user decision: at the PDF floor gate,
\* at the PNG "save smallest possible" gate and on the JPEG fallback path, with
\* consent the engine returns Ok with a best-effort artifact at the output
\* path (a failed copy or rename is the one other return), and on refusal it
\* returns the cancellation error, never Ok.
C21_UnreachableIsUserDecision ==
    (pc = "done" /\ asked # <<>>
        /\ Last(asked)[1] \in {"pdf_floor", "png_smallest", "fb_resize"}) =>
        /\ (Yes(Last(asked)[2]) /\ Last(asked)[1] # "fb_resize") =>
              \/ result = "Ok" /\ fs["output"] # Absent
              \/ result = "ErrIo"
        /\ Last(asked)[2] = "no" => result = "ErrCancelled"

RangeOfRatio ==
    CASE original_size > 10 * target_kb -> <<50, 150>>
      [] 3 * target_kb < original_size /\ original_size <= 10 * target_kb -> <<72, 250>>
      [] 2 * target_kb < original_size /\ original_size <= 3 * target_kb -> <<100, 400>>
      [] OTHER -> <<150, 600>>

C23_DpiRangeByRatio ==
    (engine = "pdf" /\ target_kb # NoTarget) =>
        /\ calls["gs_dpi"] = 0 => min_dpi = RangeOfRatio[1] /\ max_dpi = RangeOfRatio[2]
        /\ min_dpi >= RangeOfRatio[1] /\ max_dpi <= RangeOfRatio[2]
        /\ \A d \in probed["dpi"] : RangeOfRatio[1] <= d /\ d <= RangeOfRatio[2]

C23_Witness ==
    /\ engine = "pdf" /\ target_kb # NoTarget /\ pc = "dpi"
    /\ 2 * target_kb < original_size /\ original_size <= 3 * target_kb
    /\ 100 \in probed["dpi"] /\ Cardinality(probed["dpi"]) >= 8

\* C24: in compress_pdf with no target exactly one Ghostscript run is made,
\* with the /ebook preset when the original is above 10,000 KB and /printer
\* otherwise; the engine returns Ok exactly when that run wrote the output,
\* an error otherwise, and no floor check, DPI probe, /screen fallback or
\* prompt is ever issued.
C24_PresetOnly ==
    (engine = "pdf" /\ target_kb = NoTarget) =>
        /\ calls["gs_floor"] = 0 /\ calls["gs_dpi"] = 0 /\ calls["gs_screen"] = 0
        /\ probed["dpi"] = {} /\ asked = <<>>
        /\ pc \in {"start", "done"}
        /\ pc = "start" => calls["gs_preset"] = 0
        /\ pc = "done" =>
              /\ calls["gs_preset"] = 1
              /\ result \in {"Ok", "ErrTool", "ErrSpawn"}
              /\ result = "Ok" <=> fs["output"] # Absent
              /\ result = "Ok" =>
                    /\ fs["output"].tag = "gs"
                    /\ fs["output"].of =
                          IF original_size > 10000 THEN "/ebook" ELSE "/printer"

C24_Witness ==
    /\ engine = "pdf" /\ target_kb = NoTarget /\ original_size > 10000
    /\ original_size <= 50000
    /\ pc = "done" /\ result = "Ok" /\ calls["gs_preset"] = 1
    /\ fs["output"].of = "/ebook"

\* C25: in the PNG quantization search every probe invokes pngquant with the
\* quality range [mid, 100]: the upper bound passed is 100 whatever the
\* search's hi bound has become.
C25_QualityUpperIs100 ==
    (engine = "png" /\ calls["pngquant"] > 0) =>
        /\ quality_arg[1] \in probed["quality"]
        /\ quality_arg[2] = 100

\* C26: in compress_png the grayscale conversion reads the stripped (oxipng)
\* image, never a quantized one; when the grayscale size is <= target and the
\* user consents (or auto_yes), the engine returns Ok with the grayscale
\* artifact as the output and no resize probe is issued (the copy of the
\* existing grayscale file failing is the one other return).
C26_GrayFromStripped ==
    engine = "png" =>
        /\ fs["gray_out"] # Absent =>
              fs["gray_out"].tag = "gray" /\ fs["gray_out"].of = "oxipng"
        /\ pc = "grayGate" => gray_size <= target_kb /\ calls["resize"] = 0
        /\ (pc = "done" /\ asked # <<>> /\ Last(asked)[1] = "png_gray"
               /\ Yes(Last(asked)[2])) =>
              /\ calls["resize"] = 0
              /\ \/ /\ result = "Ok"
                    /\ fs["output"].tag = "gray" /\ fs["output"].of = "oxipng"
                    /\ fs["output"].kb <= target_kb
                 \/ result = "ErrIo" /\ fs["gray_out"] # Absent

\* C27: in compress_png, whenever the resize search runs, its base image is
\* the grayscale file exactly when the grayscale size is strictly below the
\* stripped size and the user consented (or auto_yes) to grayscale resizing;
\* otherwise it is the stripped color image.  Every resize probe reads the
\* selected base.
GrayResizeConsented ==
    \E i \in 1..Len(asked) : asked[i][1] = "png_gray_resize" /\ Yes(asked[i][2])

C27_ResizeBase ==
    (engine = "png" /\ (calls["resize"] > 0 \/ pc = "resize")) =>
        /\ resize_input \in {"gray_out", "oxi_out"}
        /\ resize_input = "gray_out" <=> (gray_size < oxi_size /\ GrayResizeConsented)
        /\ (fs["resize_out"] # Absent /\ fs[resize_input] # Absent) =>
              /\ fs["resize_out"].tag = "resize"
              /\ fs["resize_out"].of = (IF resize_input = "gray_out" THEN "gray" ELSE "oxipng")

C27_Witness ==
    /\ engine = "png" /\ pc = "resize" /\ calls["resize"] >= 2
    /\ resize_input = "gray_out" /\ gray_size < oxi_size
    /\ asked = <<<<"png_gray", "no">>, <<"png_gray_resize", "yes">>>>
    /\ fs["resize_out"].of = "gray"

\* C28: in compress_png no codec is invoked before the oxipng strip; with no
\* target, or a stripped size <= target, the engine returns right after the
\* strip, Ok with the stripped artifact as the output (or the error of the
\* failed strip or copy), and pngquant, the grayscale conversion and the
\* resize are never invoked; they are invoked only for a stripped size above
\* the target.
C28_StripFirst ==
    engine = "png" =>
        /\ (\E st \in Stages : calls[st] > 0) => calls["oxipng"] = 1
        /\ (calls["oxipng"] > 0 /\ (target_kb = NoTarget \/ oxi_size <= target_kb)) =>
              /\ pc = "done" /\ asked = <<>>
              /\ \A st \in Stages \ {"oxipng"} : calls[st] = 0
              /\ \/ /\ result = "Ok"
                    /\ fs["output"] = Art("oxipng", "input", 0, oxi_size)
                 \/ result \in {"ErrIo", "ErrSpawn"} /\ fs["output"] = Absent
        /\ (calls["pngquant"] > 0 \/ calls["gray"] > 0 \/ calls["resize"] > 0) =>
              target_kb # NoTarget /\ oxi_size > target_kb

C28_Witness ==
    /\ engine = "png" /\ target_kb # NoTarget /\ target_kb < original_size
    /\ calls["oxipng"] = 1 /\ oxi_size = target_kb
    /\ pc = "done" /\ result = "Ok" /\ fs["output"] = Art("oxipng", "input", 0, oxi_size)

\* C29: a codec exiting non-zero makes an engine return an error only in the
\* PNG lossless strip and the preset-only PDF run: the JPEG lossy pass, the
\* PDF floor check, DPI probes and /screen fallback, the PNG grayscale and the
\* resize probes never end a run with the codec's failure.
C29_CodecFailureAbsorbed ==
    result = "ErrTool" =>
        \/ engine = "pdf" /\ target_kb = NoTarget /\ calls["gs_preset"] = 1
        \/ engine = "png" /\ calls["oxipng"] = 1 /\ calls["pngquant"] = 0

\* C30: whenever the user is about to be asked at an unreachable-target or
\* best-effort gate (the PDF floor gate, the PNG resize and smallest-possible
\* gates, the JPEG fallback gates), the requested target and an achieved size
\* have both been printed, in either verbosity mode.
AchievedSizes ==
    {"oxi_size", "pq_size", "resize_size", "floor_size", "optim_size",
     "current_size", "gray_size"}

PromptPending ==
    \/ pc \in {"fbGrayGate", "fbResizeGate"}
    \/ /\ ~auto_yes
       /\ pc \in {"floorGate", "grayResizeGate", "colorResizeGate", "resizeGate",
                  "smallestGate"}

C30_SizesShownBeforePrompt ==
    PromptPending => /\ "target" \in shown
                     /\ shown \cap AchievedSizes # {}

\* C31: with --yes, an output file already at the --output path does not
\* stop the run: the overwrite question counts as answered yes, so every run
\* under --yes that has exited has been through compress_file.
C31_YesOverwrites ==
    (auto_yes /\ mpc = "exited") => pc = "done"

\* ---------------------------------------------------------------------------
\* C32: parse_size yields the size in whole KB, truncating: for every way to
\* read the argument as <digits>[.<digits>][unit], unit in either case, the
\* result r is the floor of value * factor (r <= value * factor < r + 1) with
\* factor 1 for k/kb/no unit, 1024 for m/mb and 1024 * 1024 for g/gb; an
\* argument that cannot be read so yields None.
UnitSpellings(letter) ==
    LET l == {letter, CHOOSE u \in {"K", "M", "G"} : ToLower(u) = letter}
    IN  {<<x>> : x \in l} \cup {<<x, y>> : x \in l, y \in {"b", "B"}}

SizeReadings(s) ==
    {f \in (1..Len(s)) \X (0..Len(s)) \X {1, 1024, 1024 * 1024} :
        LET a == f[1]
            n == f[2]
            e == IF n = 0 THEN a ELSE a + 1 + n
            u == SubSeq(s, e + 1, Len(s))
        IN  /\ e <= Len(s)
            /\ \A i \in 1..a : s[i] \in {"0", "1", "2", "3", "4", "5", "6", "7", "8", "9"}
            /\ n > 0 => /\ s[a + 1] = "."
                        /\ \A i \in (a + 2)..e :
                              s[i] \in {"0", "1", "2", "3", "4", "5", "6", "7", "8", "9"}
            /\ CASE f[3] = 1    -> u = <<>> \/ u \in UnitSpellings("k")
                 [] f[3] = 1024 -> u \in UnitSpellings("m")
                 [] OTHER       -> u \in UnitSpellings("g")}

C32_ParseSize ==
    mpc # "size" =>
        IF SizeReadings(cli_size) = {}
        THEN parsed = NoTarget
        ELSE \A f \in SizeReadings(cli_size) :
                LET n == f[2]
                    d == Decimal(cli_size, 1, f[1]) * Pow10(n)
                         + Decimal(cli_size, f[1] + 2, f[1] + 1 + n)
                IN  /\ parsed >= 0
                    /\ parsed * Pow10(n) <= d * f[3]
                    /\ d * f[3] < (parsed + 1) * Pow10(n)

\* "1.1M" is read as 1.1 MB and yields 1126 KB (1126.4 truncated).
C32_Witness ==
    /\ mpc # "size"
    /\ cli_size = <<"1", ".", "1", "M">>
    /\ parsed = 1126

\* ---------------------------------------------------------------------------
\* C33: validate_size returns Ok(kb), and main goes on with kb, exactly when
\* parse_size yields a value with 1 <= kb <= 10485760; for the empty string,
\* an unparsable string, a value of 0 KB and a value above 10 GB it returns an
\* error and main exits with code 1.
C33_ValidateSize ==
    mpc # "size" =>
        IF parsed >= 1 /\ parsed <= 10485760
        THEN mpc = "overwrite" /\ target_kb = parsed /\ exit_code = -1
        ELSE /\ mpc = "exited" /\ exit_code = 1 /\ target_kb = NoTarget
             /\ \/ cli_size = <<>>
                \/ parsed = NoTarget
                \/ parsed = 0
                \/ parsed > 10485760

\* "10g" is exactly the 10 GB limit and is accepted.
C33_Witness ==
    /\ cli_size = <<"1", "0", "g">>
    /\ mpc = "overwrite"
    /\ target_kb = 10485760

\* ---------------------------------------------------------------------------
\* C34: whenever an engine returns Ok, the output path has been written during
\* the run: with no file at the output path before the run, there is one after
\* an Ok return, whatever the answers at the consent gates.
C34_OkHasOutput ==
    (pc = "done" /\ result = "Ok") => fs["output"] # Absent

\* ---------------------------------------------------------------------------
\* C35: in compress_pdf with a target below the original size, when the floor
\* check succeeded and Ghostscript is deterministic (the /screen fallback run
\* gives the size the /screen floor run gave), every Ok return outside the
\* Unreachable branch leaves an output of at most target KB, whether it is
\* the winning DPI probe's artifact or the fallback's.
ScreenDeterministic ==
    (fs["output"].tag = "gs" /\ fs["output"].of = "/screen") =>
        fs["output"].kb = floor_size

C35_PdfOkWithinTarget ==
    (/\ engine = "pdf" /\ target_kb # NoTarget /\ target_kb < original_size
     /\ pc = "done" /\ result = "Ok" /\ algorithm # "Floor (Min Quality)"
     /\ floor_checked /\ ScreenDeterministic) =>
        /\ fs["output"] # Absent
        /\ fs["output"].kb <= target_kb

\* The search found no DPI and the fallback wrote the floor's size.
C35_Witness ==
    /\ engine = "pdf" /\ target_kb # NoTarget /\ target_kb < original_size
    /\ pc = "done" /\ result = "Ok" /\ algorithm = "Fallback /screen"
    /\ floor_checked /\ calls["gs_dpi"] > 0
    /\ fs["output"] = Art("gs", "/screen", 0, floor_size)

\* The winning probe's artifact is the output.
C35_WitnessProbe ==
    /\ engine = "pdf" /\ target_kb # NoTarget /\ target_kb < original_size
    /\ pc = "done" /\ result = "Ok" /\ algorithm = "Binary Search"
    /\ floor_checked /\ fs["output"] = Art("gs", "dpi", best_dpi, best_size)

\* ---------------------------------------------------------------------------
\* C36: every engine run terminates when each codec invocation and each
\* prompt returns, and whatever the tools do a run invokes codecs at most 16
\* times in compress_pdf, 19 times in compress_png and 9 times in the
\* no-target path of compress_jpg.
Invocations ==
    calls["oxipng"] + calls["pngquant"] + calls["gray"] + calls["resize"]
    + calls["polish"] + calls["gs_preset"] + calls["gs_floor"] + calls["gs_dpi"]
    + calls["gs_screen"] + calls["jpegoptim"] + calls["magick_lossy"]
    + calls["jgray"] + calls["jresize"] + calls["jfinal"]

InvocationsBounded ==
    /\ engine = "pdf" => Invocations <= 16
    /\ engine = "png" => Invocations <= 19
    /\ (engine = "jpg" /\ target_kb = NoTarget) => Invocations <= 9

C36_TerminatesBounded == [](InvocationsBounded) /\ <>(pc = "done")

\* A compress_pdf run that used all 16 invocations, and returned.
C36_Witness ==
    /\ engine = "pdf" /\ pc = "done" /\ Invocations = 16
    /\ calls["gs_floor"] = 1 /\ calls["gs_dpi"] = max_iterations /\ calls["gs_screen"] = 1

\* ---------------------------------------------------------------------------
\* C37: on every Ok return of an engine none of the temp files of the run
\* (the oxipng, pngquant, gray and resize files, the jpegoptim file, the
\* ladder's rung files, the PDF .tmp file) is left on disk.
C37_NoTempLeftOnOk ==
    (pc = "done" /\ result = "Ok") => \A f \in Files \ {"input", "output"} : fs[f] = Absent

\* ---------------------------------------------------------------------------
\* C38: no engine writes to, renames or removes the input file: in every
\* state of every run, finished or failed, the input is the file it was.
C38_InputUntouched ==
    fs["input"] = Art("original", "", 0, original_size)

\* A run that copied the input to the output after the ladder failed, and one
\* that ended in an error after codecs ran: the input is still there.
C38_Witness ==
    /\ pc = "done" /\ result = "Ok" /\ ~NoCodecRun
    /\ fs["output"] = fs["input"]
    /\ fs["input"] = Art("original", "", 0, original_size)

\* ---------------------------------------------------------------------------
\* C39: on the JPEG fallback path the gates come in the order grayscale, then
\* resize; the resize gate is next whenever the grayscale was declined, exited
\* non-zero or left a size above the target; a declined resize, and a resize
\* search that met no fitting scale, return Ok as "Best Effort" and write
\* nothing, so that the output is what the earlier steps left there: the
\* grayscale image when the grayscale ran.
FallbackGates ==
    SelectSeq(asked, LAMBDA g : g[1] \in {"fb_gray", "fb_resize"})

GatesInOrder ==
    \/ FallbackGates = <<>>
    \/ Len(FallbackGates) = 1 /\ FallbackGates[1][1] = "fb_gray"
    \/ /\ Len(FallbackGates) = 2
       /\ FallbackGates[1][1] = "fb_gray" /\ FallbackGates[2][1] = "fb_resize"

BestEffortKept ==
    /\ pc' = "done" /\ result' = "Ok" /\ algorithm' = "Best Effort"
    /\ fs' = fs

FallbackStep ==
    /\ GatesInOrder'
    /\ (pc = "fbGrayGate" /\ Last(asked') = <<"fb_gray", "no">>) =>
            pc' = "fbResizeGate" /\ fs' = fs
    /\ (pc = "fbGray" /\ result' # "ErrSpawn") =>
            \/ fs' = fs /\ pc' = "fbResizeGate"
            \/ /\ fs'["output"].tag = "gray" /\ fs'["output"].kb > target_kb
               /\ pc' = "fbResizeGate"
            \/ /\ fs'["output"].tag = "gray" /\ fs'["output"].kb <= target_kb
               /\ pc' = "done" /\ result' = "Ok"
    /\ (pc = "fbResizeGate" /\ Last(asked') = <<"fb_resize", "no">>) => BestEffortKept
    /\ (pc = "fbResize" /\ pc' # "fbResize" /\ result' # "ErrSpawn") =>
            IF fits["jscale"] = {} THEN BestEffortKept ELSE pc' = "fbFinal"

C39_FallbackGates == [][engine = "jpg" => FallbackStep]_vars

\* The grayscale ran and left the size above the target, the resize was
\* declined: Best Effort, the output the grayscale image.
C39_Witness ==
    /\ engine = "jpg" /\ pc = "done" /\ result = "Ok" /\ algorithm = "Best Effort"
    /\ FallbackGates = <<<<"fb_gray", "yes">>, <<"fb_resize", "no">>>>
    /\ fs["output"].tag = "gray" /\ fs["output"].kb > target_kb

\* The resize search ran its probes and met no fitting scale: Best Effort.
C39_WitnessNoFit ==
    /\ engine = "jpg" /\ pc = "done" /\ result = "Ok" /\ algorithm = "Best Effort"
    /\ Last(asked) = <<"fb_resize", "yes">>
    /\ calls["jresize"] > 0 /\ fits["jscale"] = {}

\* ---------------------------------------------------------------------------
\* C40: after compress_file returned Ok, main removes the output and exits
\* with code 1 when the output's size in whole KB is 0 (a file of less than
\* 1024 bytes, or no file), and exits with code 0 otherwise; after it
\* returned Err, main exits with code 1.
MainFinishStep ==
    (mpc = "engine" /\ pc = "done" /\ mpc' = "exited") =>
        IF result = "Ok"
        THEN IF fs["output"] = Absent \/ fs["output"].kb = 0
             THEN /\ exit_code' = 1
                  /\ fs' = [fs EXCEPT !["output"] = Absent]
             ELSE /\ exit_code' = 0
                  /\ fs' = fs
        ELSE /\ exit_code' = 1
             /\ fs' = fs

C40_WitnessKept ==
    /\ mpc = "exited" /\ exit_code = 0 /\ result = "Ok"
    /\ fs["output"] # Absent /\ fs["output"].kb >= 1 /\ fs["output"].tag # "old"

====
